---- MODULE Spec2Model ----
(***************************************************************************)
(* Model of the voxbridge real-time audio core: the streaming VAD          *)
(* (silero_vad.py), the loopback feedback gate and resampling callback     *)
(* (loopback_capture.py), the audio player worker (audio_player.py), the   *)
(* capture sources (mic_capture.py), the channel pipelines (channel.py)    *)
(* and the start-up and shutdown of main.py and gui_app.py.                *)
(*                                                                         *)
(* Time is an integer number of milliseconds (time.monotonic()).  An       *)
(* audio array (np.ndarray of float32 samples) is a sequence of runs       *)
(* [lo, n, amp]: n consecutive samples of the capture stream starting at   *)
(* stream position lo, all of amplitude amp/1000.  None is <<>> and a set  *)
(* optional value x is <<x>>.                                              *)
(***************************************************************************)
EXTENDS Integers, Sequences, FiniteSets, TLC

\* ------------------------------------------------------------------ config
SAMPLE_RATE == 16000
CHUNK_DURATION_MS == 30
MIN_SPEECH_DURATION_MS == 500
MAX_SPEECH_DURATION_MS == 15000
VAD_THRESHOLD_PM == 400
VAD_MIN_SILENCE_MS == 600
FEEDBACK_GATE_BUFFER_MS == 300
QUEUE_MAX_SIZE == 50
silero_chunk_size == 512
EnergyGain == 20
PlayQueueMax == 20
LeadInMs == 50
JoinTimeoutMs == 2000
GetTimeoutMs == 500

None == <<>>
Some(x) == <<x>>
Max(a, b) == IF a >= b THEN a ELSE b
Min(a, b) == IF a <= b THEN a ELSE b

\* ------------------------------------------------------------------ bounds
\* calls of process_chunk in the free-timing VAD specification
MaxCalls == 3
\* amplitudes (in 1/1000) a captured block can have: silence and 0.1
Amps == {0, 100}
\* block lengths (samples) handed to process_chunk in SpecVAD
BlockSizes == {480, 512, 8192}
\* wall-clock gaps (ms) between two process_chunk calls in SpecVAD
Gaps == {0, 32, 700, 15100}
\* the real-time scenarios of SpecRT: ms of above-threshold audio followed by
\* ms of below-threshold audio
Scenarios ==
  { [id |-> "speech600", speech |-> 600, silence |-> 700],
    [id |-> "burst200", speech |-> 200, silence |-> 700],
    [id |-> "continuous", speech |-> MAX_SPEECH_DURATION_MS + 1000, silence |-> 0] }
\* block lengths (samples) of the real-time feed; 480 is the capture block
\* (SAMPLE_RATE * CHUNK_DURATION_MS / 1000)
RTBlockSizes == {160, 480, 512, 1024}
\* set_gate calls made in the gate specifications
\* external reset() calls in one run, and the blocks and gaps between them
MaxResets == 2
ResetBlockSizes == {480, 8192}
ResetGaps == {32, 700}
\* blocks of the stream that overflows the queue: an utterance and its
\* end of speech, then more blocks than the queue holds
OverflowLen == 30 + QUEUE_MAX_SIZE + 2
\* blocks of each capture stream in the run with the gate
GatedLen == 5
MaxArms == 3
\* the clock stops advancing at this time (ms) in the gate specifications
GateHorizonMs == 600
\* durations (ms) passed to set_gate in the gate specifications
ArmDurations == {100, 500}
\* clock steps (ms) of the gate and player specifications
ClockSteps == {50}
\* clips handed to AudioPlayer.play in SpecPlayer
MaxClips == 2
\* durations (ms) of the synthesized clips: len(audio) / SAMPLE_RATE
ClipDurations == {100, 500}
\* blocks delivered to the loopback callback in SpecPlayer
MaxBlocks == 1
\* "approximately": at most this many ms away
ApproxToleranceMs == 100
\* the clock stops advancing at this time (ms) in SpecPlayer
PlayerHorizonMs == 500
Loud == CHOOSE a \in Amps : \A b \in Amps : a >= b
Quiet == CHOOSE a \in Amps : \A b \in Amps : a <= b

VARIABLES
  now,        \* time.monotonic(), ms
  vad,        \* the SileroVAD object's fields
  result,     \* return value of the last process_chunk call
  fins,       \* history: segments finalized by the last process_chunk call
  ghost,      \* history: counters kept beside the VAD (not program state)
  feed,       \* the test input still to be fed / the capture stream position
  gate_until, \* LoopbackCapture._gate_until, ms
  armers,     \* the threads inside set_gate: their position and locals
  gateLog,    \* history: the set_gate calls made and the writes to _gate_until
  play_queue, \* AudioPlayer._play_queue: the clips (their durations, ms)
  player,     \* the audio-player worker thread
  lb,         \* the loopback capture: _running, scheduled puts, audio_queue
  resetLog,   \* history: the external reset() calls made on the VAD
  env,        \* the test input of a pipeline run: channels, streams, collaborators
  cap,        \* per channel: the producer side (callbacks made, puts scheduled)
  audio_queue,\* per channel: the asyncio.Queue between capture and pipeline
  pipe,       \* per channel: the ChannelPipeline object and its run() coroutine
  pool,       \* channel._executor: the work items queued, running and finished
  plog,       \* history: the steps the pipelines have started, in order
  playLog,    \* history: the clips put, dropped, armed and started, by number
  app,        \* main() / Api._engine_worker: its position and what it owns
  rs          \* the resampling callback: its input block and its output

vadVars == <<vad, result, fins, ghost, feed>>
gateVars == <<gate_until, armers, gateLog>>
playerVars == <<play_queue, player, lb, playLog>>
chanVars == <<env, cap, audio_queue, pipe, pool, plog>>
extVars == <<app, rs>>
vars == <<now, vad, result, fins, ghost, feed, gate_until, armers, gateLog,
          play_queue, player, lb, resetLog, env, cap, audio_queue, pipe, pool, plog,
          playLog, app, rs>>

\* ------------------------------------------------------------ audio arrays
Run(lo, n, amp) == [lo |-> lo, n |-> n, amp |-> amp]

RECURSIVE ALen(_)
ALen(a) == IF a = <<>> THEN 0 ELSE a[1].n + ALen(Tail(a))

\* np.concatenate([a, b]); adjacent runs of the stream are merged
AConcat(a, b) ==
  IF a = <<>> THEN b
  ELSE IF b = <<>> THEN a
  ELSE LET x == a[Len(a)]
           y == b[1]
       IN IF x.lo + x.n = y.lo /\ x.amp = y.amp
          THEN SubSeq(a, 1, Len(a) - 1) \o <<Run(x.lo, x.n + y.n, x.amp)>> \o Tail(b)
          ELSE a \o b

\* np.concatenate(list[i..j]), by halves
RECURSIVE ConcatRange(_, _, _)
ConcatRange(list, i, j) ==
  IF i > j THEN <<>>
  ELSE IF i = j THEN list[i]
  ELSE LET mid == (i + j) \div 2
       IN AConcat(ConcatRange(list, i, mid), ConcatRange(list, mid + 1, j))

\* np.concatenate(list)
Concatenate(list) == ConcatRange(list, 1, Len(list))

RECURSIVE ATake(_, _)
ATake(a, k) ==
  IF k <= 0 \/ a = <<>> THEN <<>>
  ELSE IF a[1].n <= k THEN <<a[1]>> \o ATake(Tail(a), k - a[1].n)
  ELSE <<Run(a[1].lo, k, a[1].amp)>>

RECURSIVE ADrop(_, _)
ADrop(a, k) ==
  IF a = <<>> THEN <<>>
  ELSE IF k <= 0 THEN a
  ELSE IF a[1].n <= k THEN ADrop(Tail(a), k - a[1].n)
  ELSE <<Run(a[1].lo + k, a[1].n - k, a[1].amp)>> \o Tail(a)

\* a[i:j]
ASlice(a, i, j) == ATake(ADrop(a, i), j - i)

\* sum(chunk ** 2), in units of 1e-6
RECURSIVE SumSq(_)
SumSq(a) == IF a = <<>> THEN 0 ELSE a[1].n * a[1].amp * a[1].amp + SumSq(Tail(a))

\* ------------------------------------------------------------------- VAD
VadNew ==
  [speech_buffer |-> <<>>, is_speaking |-> FALSE, silence_start |-> None,
   speech_start |-> None, leftover |-> <<>>]

\* a reset that forgets the sub-window remainder
resetKeepsSilence(v) ==
  [v EXCEPT !.speech_buffer = <<>>, !.is_speaking = FALSE, !.speech_start = None,
            !.leftover = <<>>]

resetKeepsLeftover(v) ==
  [v EXCEPT !.speech_buffer = <<>>, !.is_speaking = FALSE, !.silence_start = None,
            !.speech_start = None]

\* lines 55-63; the model.reset_states() of line 63 is skipped on the energy
\* fallback (self.model is None)
reset(v) ==
  [v EXCEPT !.speech_buffer = <<>>, !.is_speaking = FALSE, !.silence_start = None,
            !.speech_start = None, !.leftover = <<>>]

\* _get_speech_prob(chunk) >= config.VAD_THRESHOLD, on the energy fallback
\* (load() could not fetch the Silero model, self.model is None):
\* min(sqrt(mean(chunk**2)) * 20, 1) >= threshold, compared squared so that
\* it stays in the integers.  The threshold is in 1/1000.
SpeechProbAtLeast(chunk, thresholdPm) ==
  IF thresholdPm > 1000 THEN FALSE
  ELSE IF thresholdPm <= 0 THEN TRUE
  ELSE EnergyGain * EnergyGain * SumSq(chunk) >= thresholdPm * thresholdPm * ALen(chunk)

\* (now - self._silence_start) * 1000 >= config.VAD_MIN_SILENCE_MS
SilenceTimedOut(t, silence_start) == t - silence_start >= VAD_MIN_SILENCE_MS

\* mutant: the minimum-duration check always passes
MinDurationOkAlways(utterance) == TRUE

\* duration >= config.MIN_SPEECH_DURATION_S, duration = len(utterance) / SAMPLE_RATE
MinDurationOk(utterance) ==
  ALen(utterance) * 1000 >= MIN_SPEECH_DURATION_MS * SAMPLE_RATE

\* mutant: the force flush waits until the maximum is exceeded
MaxDurationReachedStrict(t, speech_start) == t - speech_start > MAX_SPEECH_DURATION_MS

\* elapsed >= config.MAX_SPEECH_DURATION_S
MaxDurationReachedAlways(t, speech_start) == TRUE

MaxDurationReached(t, speech_start) == t - speech_start >= MAX_SPEECH_DURATION_MS

\* The loop state: the VAD fields, `result`, and the history of the call.
\*   silRun: below-threshold windows analysed in a row while speaking
\*   fins:   one record per segment finalized in this call
\*           (kind, samples finalized, silRun, time, speech_start, and the
\*           is_speaking / buffer length the finalization leaves behind)
\*   segStart, winEnd: stream positions of the first sample of the
\*           segment's first above-threshold window and of the end of the
\*           window being analysed
Fin(kind, ls, t, after) ==
  [kind |-> kind, samples |-> ALen(Concatenate(ls.v.speech_buffer)),
   silRun |-> ls.silRun, t |-> t, speech_start |-> ls.v.speech_start,
   after_speaking |-> after.is_speaking, after_buffer |-> Len(after.speech_buffer),
   segStart |-> ls.segStart, winEnd |-> ls.winEnd]

\* below-threshold windows are not buffered while Speaking
ThresholdBranchSkipsSilence(ls, chunk, t) ==
  LET v == ls.v IN
  IF SpeechProbAtLeast(chunk, VAD_THRESHOLD_PM)
  THEN [ls EXCEPT !.v = [v EXCEPT !.silence_start = None,
                                  !.is_speaking = TRUE,
                                  !.speech_start = IF v.is_speaking THEN @ ELSE Some(t),
                                  !.speech_buffer = Append(@, chunk)],
                  !.silRun = 0,
                  !.segStart = IF v.is_speaking THEN @ ELSE chunk[1].lo]
  ELSE IF ~v.is_speaking THEN [ls EXCEPT !.idleQuiet = @ + 1]
  ELSE LET v1 == v
           l1 == [ls EXCEPT !.v = v1, !.silRun = @ + 1]
       IN IF v1.silence_start = None
          THEN [l1 EXCEPT !.v = [v1 EXCEPT !.silence_start = Some(t)]]
          ELSE IF SilenceTimedOut(t, v1.silence_start[1])
          THEN LET utterance == Concatenate(v1.speech_buffer)
                   ok == Len(v1.speech_buffer) > 0 /\ MinDurationOk(utterance)
               IN [l1 EXCEPT !.v = reset(v1),
                             !.result = IF ok THEN Some(utterance) ELSE @,
                             !.fins = Append(@, Fin(IF ok THEN "emit" ELSE "discard", l1, t, reset(v1))),
                             !.silRun = 0]
          ELSE l1

\* lines 96-127: the threshold branch of one analysis window
ThresholdBranch(ls, chunk, t) ==
  LET v == ls.v IN
  IF SpeechProbAtLeast(chunk, VAD_THRESHOLD_PM)
  THEN [ls EXCEPT !.v = [v EXCEPT !.silence_start = None,
                                  !.is_speaking = TRUE,
                                  !.speech_start = IF v.is_speaking THEN @ ELSE Some(t),
                                  !.speech_buffer = Append(@, chunk)],
                  !.silRun = 0,
                  !.segStart = IF v.is_speaking THEN @ ELSE chunk[1].lo]
  ELSE IF ~v.is_speaking THEN [ls EXCEPT !.idleQuiet = @ + 1]
  ELSE LET v1 == [v EXCEPT !.speech_buffer = Append(@, chunk)]
           l1 == [ls EXCEPT !.v = v1, !.silRun = @ + 1]
       IN IF v1.silence_start = None
          THEN [l1 EXCEPT !.v = [v1 EXCEPT !.silence_start = Some(t)]]
          ELSE IF SilenceTimedOut(t, v1.silence_start[1])
          THEN LET utterance == Concatenate(v1.speech_buffer)
                   ok == Len(v1.speech_buffer) > 0 /\ MinDurationOk(utterance)
               IN [l1 EXCEPT !.v = reset(v1),
                             !.result = IF ok THEN Some(utterance) ELSE @,
                             !.fins = Append(@, Fin(IF ok THEN "emit" ELSE "discard", l1, t, reset(v1))),
                             !.silRun = 0]
          ELSE l1

\* no force flush at all
ForceFlushOff(ls, t) == ls

\* force flush tested on the elapsed time alone, Speaking or not
ForceFlushUnguarded(ls, t) ==
  LET v == ls.v IN
  IF MaxDurationReached(t, IF v.speech_start = None THEN 0 ELSE v.speech_start[1])
  THEN [ls EXCEPT !.v = reset(v),
                  !.result = IF Len(v.speech_buffer) > 0
                             THEN Some(Concatenate(v.speech_buffer)) ELSE @,
                  !.fins = Append(@, Fin("force", ls, t, reset(v))),
                  !.silRun = 0]
  ELSE ls

\* lines 129-137: force emit if the segment is too long
ForceFlush(ls, t) ==
  LET v == ls.v IN
  IF v.is_speaking /\ v.speech_start # None /\ MaxDurationReached(t, v.speech_start[1])
  THEN [ls EXCEPT !.v = reset(v),
                  !.result = IF Len(v.speech_buffer) > 0
                             THEN Some(Concatenate(v.speech_buffer)) ELSE @,
                  !.fins = Append(@, Fin("force", ls, t, reset(v))),
                  !.silRun = 0]
  ELSE ls

\* lines 96-137: one analysis window
AnalyseWindow(ls, chunk, t) == ForceFlush(ThresholdBranch(ls, chunk, t), t)

\* the samples of a are consecutive samples of the stream, from position lo
Consecutive(a, lo) ==
  /\ a # <<>>
  /\ a[1].lo = lo
  /\ \A i \in 1..(Len(a) - 1) : a[i + 1].lo = a[i].lo + a[i].n

\* lines 91-137: the while loop over the analysis windows
\*   next, gapless: history; the stream position the next window starts at
\*           if none was skipped or repeated, and whether every window so
\*           far started there
RECURSIVE WindowLoop(_, _, _)
WindowLoop(ls, audio_chunk, t) ==
  IF ls.pos + silero_chunk_size <= ALen(audio_chunk)
  THEN LET chunk == ASlice(audio_chunk, ls.pos, ls.pos + silero_chunk_size)
           l0 == [ls EXCEPT !.gapless = @ /\ Consecutive(chunk, ls.next),
                            !.next = @ + silero_chunk_size,
                            !.winEnd = chunk[Len(chunk)].lo + chunk[Len(chunk)].n]
           l1 == AnalyseWindow(l0, chunk, t)
           idleQuietWindow == ~l0.v.is_speaking /\ ~SpeechProbAtLeast(chunk, VAD_THRESHOLD_PM)
           kept == l1.v = l0.v /\ l1.result = l0.result /\ l1.fins = l0.fins
       IN WindowLoop([l1 EXCEPT !.windows = @ + 1, !.pos = @ + silero_chunk_size,
                                !.idleKept = @ /\ (idleQuietWindow => kept)],
                     audio_chunk, t)
  ELSE ls

\* the block alone, whatever was left over
PrependNothing(leftover, block) == block

\* lines 83-85: the remainder of the previous call goes in front of the block
Prepend(leftover, block) ==
  IF ALen(leftover) > 0 THEN AConcat(leftover, block) ELSE block

\* process_chunk(audio_chunk) called at time t, from VAD state v
process_chunk(v, g, block, t) ==
  LET audio_chunk == Prepend(v.leftover, block)
      v0 == [v EXCEPT !.leftover = <<>>]
      l0 == [v |-> v0, result |-> None, fins |-> <<>>, silRun |-> g.silRun,
             windows |-> 0, pos |-> 0, next |-> g.next, gapless |-> g.gapless,
             segStart |-> g.segStart, winEnd |-> 0, idleQuiet |-> 0,
             idleKept |-> g.idleKept]
      l1 == WindowLoop(l0, audio_chunk, t)
  IN [l1 EXCEPT !.v = IF l1.pos < ALen(audio_chunk)
                      THEN [l1.v EXCEPT !.leftover = ADrop(audio_chunk, l1.pos)]
                      ELSE l1.v]

\*   fedSince, winsSince: samples fed and windows analysed since the last
\*           external reset(); idleQuiet: below-threshold windows the last
\*           call analysed while not speaking
GhostNew ==
  [silRun |-> 0, calls |-> 0, utterances |-> <<>>, lastWinT |-> None, lastFin |-> None,
   finCount |-> 0, fedSince |-> 0, winsSince |-> 0, next |-> 0, gapless |-> TRUE,
   segStart |-> 0, idleQuiet |-> 0, idleKept |-> TRUE]

\* the state after a call: the VAD fields, the return value and the history
AfterCall(block, t) ==
  \E r \in {process_chunk(vad, ghost, block, t)} :
  /\ now' = t
  /\ vad' = r.v
  /\ result' = r.result
  /\ fins' = r.fins
  /\ ghost' = [silRun |-> r.silRun,
               calls |-> ghost.calls + 1,
               utterances |-> IF r.result = None THEN ghost.utterances
                              ELSE Append(ghost.utterances, r.result[1]),
               lastWinT |-> IF r.windows > 0 THEN Some(t) ELSE ghost.lastWinT,
               lastFin |-> IF r.fins = <<>> THEN ghost.lastFin
                           ELSE Some(r.fins[Len(r.fins)]),
               finCount |-> ghost.finCount + Len(r.fins),
               fedSince |-> ghost.fedSince + ALen(block),
               winsSince |-> ghost.winsSince + r.windows,
               next |-> r.next,
               gapless |-> r.gapless,
               segStart |-> r.segStart,
               idleQuiet |-> r.idleQuiet,
               idleKept |-> r.idleKept]

\* ------------------------------------------------------------ feedback gate
\* line 46: gate_end = time.monotonic() + duration_s + FEEDBACK_GATE_BUFFER_S
GateEnd(t, duration) == t + duration + FEEDBACK_GATE_BUFFER_MS

\* mutant: the new window overwrites the current one
GateMaxOverwrite(current, gate_end) == gate_end

\* line 47: max(self._gate_until, gate_end)
GateMax(current, gate_end) == Max(current, gate_end)

\* is_gated: time.monotonic() < self._gate_until
is_gated(t, until) == t < until

GateLogNew == [calls |-> <<>>, writes |-> 0, before |-> 0, after |-> 0, promised |-> 0]

\* no play() call made yet: the clips are numbered by their play() call
\*   taken: the clips get() has returned; armed: those set_gate was called
\*   for; started: those handed to sd.play; finished / failed / cancelled:
\*   those whose sd.play returned at the end of the clip, raised, or was
\*   ended by sd.stop()
PlayLogNew == [queued |-> <<>>, accepted |-> <<>>, dropped |-> <<>>, taken |-> <<>>,
               armed |-> <<>>,
               started |-> <<>>, finished |-> <<>>, failed |-> <<>>, cancelled |-> <<>>,
               last |-> [id |-> 0, full |-> FALSE, before |-> <<>>, after |-> <<>>],
               atStop |-> None]

\* LoopbackCapture.__init__, AudioPlayer.__init__
GateNew == gate_until = 0 /\ gateLog = GateLogNew
WorkerOff ==
  [pc |-> "off", running |-> FALSE, duration |-> 0, armT |-> 0, wakeT |-> 0,
   startT |-> 0, endT |-> 0, played |-> 0, enqueued |-> 0,
   stop |-> "no", stopT |-> 0, waited |-> 0]
PlayerNew ==
  /\ play_queue = <<>>
  /\ player = WorkerOff
  /\ lb = [running |-> FALSE, pending |-> <<>>, queue |-> <<>>, delivered |-> 0,
           gatedWhilePlaying |-> 0]
  /\ playLog = PlayLogNew
\* no reset() call made yet
ResetLogNew == [n |-> 0, at |-> 0, streak |-> 0, before |-> VadNew, after |-> VadNew,
                dirty |-> VadNew]
ResetIdle == resetLog = ResetLogNew

\* main() not entered, no block resampled
ExtIdle ==
  /\ app = [id |-> "none"]
  /\ rs = [id |-> "none"]

\* no channel pipeline constructed
ChanIdle ==
  /\ env = [id |-> "none"]
  /\ cap = <<>>
  /\ audio_queue = <<>>
  /\ pipe = <<>>
  /\ pool = <<>>
  /\ plog = <<>>

VadIdle ==
  /\ vad = VadNew
  /\ result = None
  /\ fins = <<>>
  /\ ghost = GhostNew
  /\ feed = [id |-> "free", fed |-> 0, speech |-> 0, total |-> 0, block |-> 0]

\* ------------------------------------------- SpecVAD: blocks at any timing
InitVAD ==
  /\ now = 0
  /\ VadIdle
  /\ GateNew /\ armers = <<>> /\ PlayerNew
  /\ ResetIdle /\ ChanIdle /\ ExtIdle

\* the pipeline dequeues a block of n samples of amplitude amp, dt ms after
\* the previous call, and runs process_chunk on it
ProcessChunk(n, amp, dt) ==
  /\ ghost.calls < MaxCalls
  /\ AfterCall(<<Run(feed.fed, n, amp)>>, now + dt)
  /\ feed' = [feed EXCEPT !.fed = @ + n]
  /\ UNCHANGED <<gateVars, playerVars, resetLog, chanVars, extVars>>

NextVAD == \E n \in BlockSizes, amp \in Amps, dt \in Gaps : ProcessChunk(n, amp, dt)

SpecVAD == InitVAD /\ [][NextVAD]_vars

\* ------------------------- SpecReset: process_chunk calls and reset() calls
\* a client calls reset() on the VAD, between two process_chunk calls
\*   streak: reset() calls made in a row, with no process_chunk in between
\*   dirty:  the VAD fields before the first reset() of the streak
ResetCall ==
  /\ resetLog.n < MaxResets
  /\ vad' = reset(vad)
  /\ LET again == resetLog.n > 0 /\ resetLog.at = ghost.calls IN
       resetLog' = [n |-> resetLog.n + 1,
                    at |-> ghost.calls,
                    streak |-> IF again THEN resetLog.streak + 1 ELSE 1,
                    before |-> vad,
                    after |-> reset(vad),
                    dirty |-> IF again THEN resetLog.dirty ELSE vad]
  /\ ghost' = [ghost EXCEPT !.silRun = 0, !.fedSince = 0, !.winsSince = 0,
                            !.next = feed.fed, !.gapless = TRUE]
  /\ UNCHANGED <<now, result, fins, feed, gateVars, playerVars, chanVars, extVars>>

NextReset ==
  \/ \E n \in ResetBlockSizes, amp \in Amps, dt \in ResetGaps : ProcessChunk(n, amp, dt)
  \/ ResetCall

SpecReset == InitVAD /\ [][NextReset]_vars

\* ------------------------------------- SpecRT: blocks arriving in real time
\* samples lo .. lo+len-1 of a stream that is loud before sample `speech`
\* and quiet from it on
StreamBlock(lo, len, speech) ==
  AConcat(IF lo < speech THEN <<Run(lo, Min(len, speech - lo), Loud)>> ELSE <<>>,
          IF lo + len > speech
          THEN <<Run(Max(lo, speech), lo + len - Max(lo, speech), Quiet)>> ELSE <<>>)

\* the time at which the capture has delivered the first k samples
RealTime(k) == (k * 1000) \div SAMPLE_RATE

InitRT ==
  /\ now = 0
  /\ vad = VadNew
  /\ result = None
  /\ fins = <<>>
  /\ ghost = GhostNew
  /\ GateNew /\ armers = <<>> /\ PlayerNew
  /\ ResetIdle /\ ChanIdle /\ ExtIdle
  /\ \E sc \in Scenarios, n \in RTBlockSizes :
       feed = [id |-> sc.id, fed |-> 0,
               speech |-> (sc.speech * SAMPLE_RATE) \div 1000,
               total |-> ((sc.speech + sc.silence) * SAMPLE_RATE) \div 1000,
               block |-> n]

\* the next block of the stream is processed as soon as it has been captured
ProcessChunkRT ==
  /\ feed.fed < feed.total
  /\ LET len == Min(feed.block, feed.total - feed.fed) IN
       /\ AfterCall(StreamBlock(feed.fed, len, feed.speech), RealTime(feed.fed + len))
       /\ feed' = [feed EXCEPT !.fed = @ + len]
  /\ UNCHANGED <<gateVars, playerVars, resetLog, chanVars, extVars>>

NextRT == ProcessChunkRT

SpecRT == InitRT /\ [][NextRT]_vars

\* --------------------------- SpecGateSeq / SpecGateConc: calls of set_gate
ArmerIdle == [pc |-> "idle", d |-> 0, t |-> 0, gate_end |-> 0, seen |-> 0]

InitGate(threads) ==
  /\ now = 0
  /\ VadIdle
  /\ GateNew
  /\ ResetIdle /\ ChanIdle /\ ExtIdle
  /\ armers = [th \in threads |-> ArmerIdle]
  /\ PlayerNew

\* set_gate, line 46: the clock is read and gate_end computed
SetGateCall(th, d) ==
  /\ armers[th].pc = "idle"
  /\ Len(gateLog.calls) + Cardinality({x \in DOMAIN armers : armers[x].pc # "idle"}) < MaxArms
  /\ armers' = [armers EXCEPT ![th] = [pc |-> "read", d |-> d, t |-> now,
                                       gate_end |-> GateEnd(now, d), seen |-> 0]]
  /\ UNCHANGED <<now, gate_until, gateLog, vadVars, playerVars, resetLog, chanVars, extVars>>

\* set_gate, line 47: self._gate_until is loaded
SetGateRead(th) ==
  /\ armers[th].pc = "read"
  /\ armers' = [armers EXCEPT ![th].pc = "write", ![th].seen = gate_until]
  /\ UNCHANGED <<now, gate_until, gateLog, vadVars, playerVars, resetLog, chanVars, extVars>>

\* set_gate, line 47: max(...) is stored into self._gate_until
SetGateWrite(th) ==
  /\ armers[th].pc = "write"
  /\ gate_until' = GateMax(armers[th].seen, armers[th].gate_end)
  /\ gateLog' = [calls |-> Append(gateLog.calls,
                                   [t |-> armers[th].t, d |-> armers[th].d,
                                    before |-> gate_until, after |-> gate_until']),
                 writes |-> gateLog.writes + 1,
                 before |-> gate_until,
                 after |-> gate_until',
                 promised |-> Max(gateLog.promised, armers[th].gate_end)]
  /\ armers' = [armers EXCEPT ![th] = ArmerIdle]
  /\ UNCHANGED <<now, vadVars, playerVars, resetLog, chanVars, extVars>>

TickGate(dt) ==
  /\ now + dt <= GateHorizonMs
  /\ now' = now + dt
  /\ UNCHANGED <<gateVars, vadVars, playerVars, resetLog, chanVars, extVars>>

NextGate ==
  \/ \E th \in DOMAIN armers, d \in ArmDurations : SetGateCall(th, d)
  \/ \E th \in DOMAIN armers : SetGateRead(th)
  \/ \E th \in DOMAIN armers : SetGateWrite(th)
  \/ \E dt \in ClockSteps : TickGate(dt)

\* one caller at a time
SpecGateSeq == InitGate({"player"}) /\ [][NextGate]_vars

\* two threads calling set_gate
SpecGateConc == InitGate({"player", "other"}) /\ [][NextGate]_vars

\* the two channels
mic == "mic"
loopback == "loopback"

\* ------------------------- SpecPlayer: the player worker and the loopback
InitPlayer ==
  /\ now = 0
  /\ VadIdle
  /\ GateNew /\ armers = <<>>
  /\ PlayerNew
  /\ ResetIdle /\ ChanIdle /\ ExtIdle

\* AudioPlayer.start() 27-35: _running is set and the worker thread started;
\* the worker is before its first test of `while self._running`
\*   pc: "off", "test" (line 38), "get" (line 40), "got" (get() has returned
\*       a clip, lines 44-50 are next), "sleep" (line 51), "play" (line 54)
\*       or "exited"; waited: the time the get() in progress has
\*       waited, counted up to its timeout (0 outside get())
WorkerStarted == [WorkerOff EXCEPT !.pc = "test", !.running = TRUE]

\* AudioPlayer(loopback_capture=loopback_capture), main.py 128: the player
\* holds the loopback capture when the loopback channel is built
LoopbackAttached == env.id \in {"none", "burst"} \/ loopback \in env.channels

\* dt of time passes for the worker: a get() in progress has waited dt more
Elapse(p, dt) ==
  IF p.pc = "get" THEN [p EXCEPT !.waited = Min(GetTimeoutMs, @ + dt)] ELSE p

AudioPlayerStart ==
  /\ player.pc = "off"
  /\ player' = [player EXCEPT !.pc = "test", !.running = TRUE]
  /\ UNCHANGED <<now, play_queue, lb, playLog, gateVars, vadVars, resetLog, chanVars, extVars>>

\* LoopbackCapture.start(): the stream is open, callbacks are delivered
LoopbackStart ==
  /\ ~lb.running
  /\ lb' = [lb EXCEPT !.running = TRUE]
  /\ UNCHANGED <<now, play_queue, player, playLog, gateVars, vadVars, resetLog, chanVars, extVars>>

\* a put that makes room by discarding the oldest queued item
put_drop_oldest(q, item) ==
  IF Len(q) < PlayQueueMax THEN Append(q, item) ELSE Append(Tail(q), item)

\* play lines 66-69: self._play_queue.put_nowait(audio) on the
\* queue.Queue(maxsize=20); queue.Full is caught and the clip is dropped
put_nowait(q, item) ==
  IF Len(q) < PlayQueueMax THEN Append(q, item) ELSE q

\* a get that takes the newest queued item
get_newest(q) == [item |-> q[Len(q)], rest |-> SubSeq(q, 1, Len(q) - 1)]

\* _player_loop line 40: self._play_queue.get(...) on a non-empty queue.Queue
\* takes the oldest item
queue_get(q) == [item |-> Head(q), rest |-> Tail(q)]

\* history of a play() call for clip number id; last is the most recent
\* call that found the queue full
PlayLogPut(log, id) ==
  LET full == Len(log.queued) >= PlayQueueMax
      after == put_nowait(log.queued, id)
  IN [log EXCEPT !.queued = after,
                 !.accepted = IF full THEN @ ELSE Append(@, id),
                 !.dropped = IF full THEN Append(@, id) ELSE @,
                 !.last = IF full THEN [id |-> id, full |-> TRUE, before |-> log.queued,
                                        after |-> after]
                          ELSE @]

\* the play() calls a run makes: a burst that overfills the play queue, or
\* MaxClips clips
BurstLen == PlayQueueMax + 2
PlayBound == IF env.id = "burst" THEN BurstLen ELSE MaxClips

\* AudioPlayer.play(audio), called by a channel pipeline (ENABLE_TTS_OUTPUT
\* is set, the clip is not empty): put_nowait, a full queue drops the clip
play(d) ==
  /\ player.enqueued < PlayBound
  /\ play_queue' = put_nowait(play_queue, d)
  /\ playLog' = PlayLogPut(playLog, player.enqueued + 1)
  /\ player' = [player EXCEPT !.enqueued = @ + 1]
  /\ UNCHANGED <<now, lb, gateVars, vadVars, resetLog, chanVars, extVars>>

\* _player_loop line 38: `while self._running`, which does not look at the
\* queue: the worker goes on to get(), or leaves the loop and ends
PlayerLoopTest ==
  /\ player.pc = "test"
  /\ player' = IF player.running
               THEN [player EXCEPT !.pc = "get", !.waited = 0]
               ELSE [player EXCEPT !.pc = "exited"]
  /\ UNCHANGED <<now, play_queue, playLog, lb, gateVars, vadVars, resetLog, chanVars,
                 extVars>>

\* lines 40-42: get(timeout=0.5) has waited its time on an empty queue,
\* queue.Empty is caught and the loop goes round
PlayerTimeout ==
  /\ player.pc = "get"
  /\ play_queue = <<>>
  /\ player.waited >= GetTimeoutMs
  /\ player' = [player EXCEPT !.pc = "test", !.waited = 0]
  /\ UNCHANGED <<now, play_queue, playLog, lb, gateVars, vadVars, resetLog, chanVars,
                 extVars>>

\* _player_loop line 40: get() returns with the oldest clip, which is off the
\* queue from then on; the worker holds it and has not yet looked at it
PlayerGet ==
  /\ player.pc = "get"
  /\ play_queue # <<>>
  /\ play_queue' = queue_get(play_queue).rest
  /\ playLog' = [playLog EXCEPT !.queued = queue_get(playLog.queued).rest,
                                !.taken = Append(@, queue_get(playLog.queued).item)]
  /\ player' = [player EXCEPT !.pc = "got", !.duration = queue_get(play_queue).item,
                              !.waited = 0]
  /\ UNCHANGED <<now, lb, gateVars, vadVars, resetLog, chanVars, extVars>>

\* _player_loop lines 44-54, some time after the get(): the duration of the
\* clip is computed; with a loopback capture the gate is armed with it
\* (set_gate reads the clock then) and the worker goes to sleep for the
\* lead-in, without one sd.play begins at once
PlayerArm ==
  /\ player.pc = "got"
  /\ LET duration == player.duration
         id == playLog.taken[Len(playLog.taken)] IN
       IF LoopbackAttached
       THEN /\ playLog' = [playLog EXCEPT !.armed = Append(@, id)]
            /\ gate_until' = GateMax(gate_until, GateEnd(now, duration))
            /\ gateLog' = [gateLog EXCEPT !.writes = @ + 1,
                                          !.before = gate_until,
                                          !.after = gate_until',
                                          !.promised = Max(@, GateEnd(now, duration))]
            /\ player' = [player EXCEPT !.pc = "sleep",
                                        !.armT = now, !.wakeT = now + LeadInMs]
       ELSE /\ playLog' = [playLog EXCEPT !.started = Append(@, [id |-> id,
                                                                 afterStop |-> player.stop # "no"])]
            /\ player' = [player EXCEPT !.pc = "play",
                                        !.startT = now, !.endT = now + duration]
            /\ UNCHANGED <<gate_until, gateLog>>
  /\ UNCHANGED <<now, play_queue, lb, armers, vadVars, resetLog, chanVars, extVars>>

\* line 51: time.sleep(0.05) has returned; line 54: sd.play(..., blocking=True)
\* begins
PlayerPlay ==
  /\ player.pc = "sleep"
  /\ now >= player.wakeT
  /\ player' = [player EXCEPT !.pc = "play", !.startT = now, !.endT = now + player.duration]
  /\ playLog' = [playLog EXCEPT !.started =
                    Append(@, [id |-> playLog.armed[Len(playLog.armed)],
                               afterStop |-> player.stop # "no"])]
  /\ UNCHANGED <<now, play_queue, lb, gateVars, vadVars, resetLog, chanVars, extVars>>

\* what sd.play can do in a run: play the clip and return ("ok"), or raise
\* (no output device, PortAudioError); the player on its own is taken with
\* both
PlayOutcomes == IF env.id \in {"none", "burst"} THEN {"ok", "raise"} ELSE env.out.play

\* lines 54-55: the clip has been played to its end, sd.play returns and
\* the worker is back at the loop test
PlayerDone ==
  /\ player.pc = "play"
  /\ now >= player.endT
  /\ player' = [player EXCEPT !.pc = "test", !.played = @ + 1]
  /\ playLog' = [playLog EXCEPT !.finished =
                    Append(@, [id |-> playLog.started[Len(playLog.started)].id,
                               afterStop |-> player.stop # "no"])]
  /\ UNCHANGED <<now, play_queue, lb, gateVars, vadVars, resetLog, chanVars, extVars>>

\* lines 54-57: sd.play raises, at once or after any time; the exception is
\* caught and logged, the clip counts as not played and the worker is back
\* at the loop test
PlayerPlayError ==
  /\ player.pc = "play"
  /\ "raise" \in PlayOutcomes
  /\ player' = [player EXCEPT !.pc = "test"]
  /\ playLog' = [playLog EXCEPT !.failed =
                    Append(@, playLog.started[Len(playLog.started)].id)]
  /\ UNCHANGED <<now, play_queue, lb, gateVars, vadVars, resetLog, chanVars, extVars>>

\* stop() lines 71-74: self._running = False, then the join of the worker
\* begins
AudioPlayerStop ==
  /\ player.pc # "off" /\ player.stop = "no"
  /\ player' = [player EXCEPT !.running = FALSE, !.stop = "join", !.stopT = now]
  /\ playLog' = [playLog EXCEPT !.atStop =
                    Some([pc |-> player.pc, queued |-> playLog.queued,
                          current |-> IF player.pc \in {"got", "sleep", "play"}
                                      THEN Some(playLog.taken[Len(playLog.taken)])
                                      ELSE None])]
  /\ UNCHANGED <<now, play_queue, lb, gateVars, vadVars, resetLog, chanVars, extVars>>

\* stop() lines 74-79: join(timeout=2.0) returns, the worker having ended or
\* the timeout having passed with the worker still alive, then sd.stop() is
\* called.  On a worker that is inside sd.play it either ends the playback
\* (halted: the blocked sd.play returns and the worker goes on to its loop
\* test) or leaves the blocked call alone; the worker thread is not ended
\* by it
AudioPlayerStopReturn(halted) ==
  /\ player.stop = "join"
  /\ player.pc = "exited" \/ now >= player.stopT + JoinTimeoutMs
  /\ LET ends == halted /\ player.pc = "play" IN
       /\ player' = [player EXCEPT !.stop = "done",
                                   !.pc = IF ends THEN "test" ELSE @]
       /\ playLog' = [playLog EXCEPT !.cancelled =
                         IF ends
                         THEN Append(@, playLog.started[Len(playLog.started)].id) ELSE @]
  /\ UNCHANGED <<now, play_queue, lb, gateVars, vadVars, resetLog, chanVars, extVars>>

\* _audio_callback lines 55-76: a captured block is delivered; it is dropped
\* when the capture is not running or the gate is armed, else its put is
\* scheduled on the event loop.  (playing: the block came while the worker
\* was in sd.play and the clip, of the duration computed, had not ended)
LoopbackCallback ==
  /\ lb.delivered < MaxBlocks
  /\ LET playing == player.pc = "play" /\ now < player.endT
         block == [id |-> lb.delivered + 1, playing |-> playing]
         dropped == ~lb.running \/ is_gated(now, gate_until)
     IN lb' = [lb EXCEPT !.delivered = @ + 1,
                         !.pending = IF dropped THEN @ ELSE Append(@, block),
                         !.gatedWhilePlaying =
                            IF playing /\ lb.running /\ is_gated(now, gate_until)
                            THEN @ + 1 ELSE @]
  /\ UNCHANGED <<now, play_queue, player, playLog, gateVars, vadVars, resetLog, chanVars, extVars>>

\* _safe_put lines 66-71, run by the event loop
SafePut ==
  /\ lb.pending # <<>>
  /\ lb' = [lb EXCEPT !.pending = Tail(@),
                      !.queue = IF Len(@) < QUEUE_MAX_SIZE
                                THEN Append(@, Head(lb.pending)) ELSE @]
  /\ UNCHANGED <<now, play_queue, player, playLog, gateVars, vadVars, resetLog, chanVars, extVars>>

\* the clock: it starts once main() has started the player and the capture.
\* Nothing bounds how late the worker thread is: time.sleep(0.05) and
\* get(timeout=0.5) return at their time or any time after it, the blocking
\* sd.play returns when the clip has been played or any time after that
TickPlayer(dt) ==
  /\ now + dt <= PlayerHorizonMs
  /\ player.pc # "off" /\ lb.running
  /\ now' = now + dt
  /\ player' = Elapse(player, dt)
  /\ UNCHANGED <<play_queue, lb, playLog, gateVars, vadVars, resetLog, chanVars, extVars>>

\* stop() stays in join(timeout=2.0) for its whole timeout, the worker not
\* having ended
TickJoin ==
  /\ player.stop = "join"
  /\ now < player.stopT + JoinTimeoutMs
  /\ now' = player.stopT + JoinTimeoutMs
  /\ player' = Elapse(player, now' - now)
  /\ UNCHANGED <<play_queue, lb, playLog, gateVars, vadVars, resetLog, chanVars, extVars>>

NextPlayer ==
  \/ AudioPlayerStart
  \/ LoopbackStart
  \/ \E d \in ClipDurations : play(d)
  \/ PlayerLoopTest
  \/ PlayerTimeout
  \/ PlayerGet
  \/ PlayerArm
  \/ PlayerPlay
  \/ PlayerDone
  \/ PlayerPlayError
  \/ LoopbackCallback
  \/ SafePut
  \/ \E dt \in ClockSteps : TickPlayer(dt)

SpecPlayer == InitPlayer /\ [][NextPlayer]_vars

\* a burst of play() calls that overfills the play queue while the worker
\* plays
InitBurst ==
  /\ now = 0
  /\ VadIdle
  /\ GateNew /\ armers = <<>>
  /\ PlayerNew
  /\ ResetIdle /\ ExtIdle
  /\ env = [id |-> "burst"]
  /\ cap = <<>> /\ audio_queue = <<>> /\ pipe = <<>> /\ pool = <<>> /\ plog = <<>>

ShortClip == CHOOSE d \in ClipDurations : \A e \in ClipDurations : d <= e

NextBurst ==
  \/ AudioPlayerStart
  \/ LoopbackStart
  \/ play(ShortClip)
  \/ PlayerLoopTest
  \/ PlayerTimeout
  \/ PlayerGet
  \/ PlayerArm
  \/ PlayerPlay
  \/ PlayerDone
  \/ PlayerPlayError
  \/ \E dt \in ClockSteps : TickPlayer(dt)

SpecBurst == InitBurst /\ [][NextBurst]_vars

\* the player with stop() called at any moment
NextStop ==
  \/ AudioPlayerStart
  \/ LoopbackStart
  \/ play(ShortClip)
  \/ PlayerLoopTest
  \/ PlayerTimeout
  \/ PlayerGet
  \/ PlayerArm
  \/ PlayerPlay
  \/ PlayerDone
  \/ PlayerPlayError
  \/ AudioPlayerStop
  \/ \E halted \in BOOLEAN : AudioPlayerStopReturn(halted)
  \/ TickJoin
  \/ \E dt \in ClockSteps : TickPlayer(dt)

SpecStop == InitPlayer /\ [][NextStop]_vars

\* ------------------------------------------------------ channel pipelines
\* the clip a synthesis returns, ms
ClipMs == 500
\* channel.py line 29: the workers of the shared thread pool
max_workers == 4
\* config.py line 141
ENABLE_TTS_OUTPUT == TRUE

\* config.ENABLE_TTS_OUTPUT as channel.py line 137 reads it: Api.start_engine
\* (gui_app.py 222) sets it to False before its worker builds the pipelines
\* with tts=None; main.py leaves the value of config.py
TtsOutput == IF env.tts = "absent" THEN FALSE ELSE ENABLE_TTS_OUTPUT

\* config.py lines 38-47; MIC_TARGET_LANG ("en", "ja" or "hi") is the
\* setting of the run
source_lang(c) == IF c = mic THEN "en" ELSE "ja"
target_lang(c) == IF c = mic THEN env.mic_target_lang ELSE "en"

\* config.py lines 111-115: the languages a Piper voice is configured for;
\* there is none for "ja"
PIPER_VOICE_MODELS == {"en", "hi"}

\* The capture of a run delivers blocks of blockMs of audio, one every
\* blockMs: CHUNK_DURATION_MS as the program is configured, or coarse blocks
\* of which a quiet one outlasts the silence timeout.
CoarseMs == VAD_MIN_SILENCE_MS + 100
BlockLen(blockMs) == (blockMs * SAMPLE_RATE) \div 1000
\* puts scheduled on the event loop and not yet run
MaxPending == 2
\* stop() calls made on one capture source
MaxStops == 2
\* longest of the short blocks handed to the resampling callback
MaxBlockSamples == 12
\* steps of a pipeline task that are told apart
MaxTaskSteps == 2

\* what the collaborators of a run may do, per call:
\*   asr:    the engine returns a segment of text / no segment / a blank
\*           segment, or raises inside model.transcribe ("error", caught at
\*           whisper_asr.py 101-103), or the model is not loaded ("raise",
\*           line 70)
\*   engine: argostranslate.translate.translate returns text / "" or raises
\*   show:   SubtitleDisplay.show returns, or raises (stdout write error)
\*   tts:    synthesize, for a language whose voice is configured, returns
\*           audio / None (piper missing, voice not loaded, synthesis error)
\*   play:   sd.play plays the clip, or raises
AllOutcomes ==
  [asr |-> {"text", "empty", "blank", "error", "raise"},
   engine |-> {"ok", "empty", "fail"},
   show |-> {"ok", "raise"},
   tts |-> {"audio", "none"},
   play |-> {"ok", "raise"}]
Healthy ==
  [asr |-> {"text"}, engine |-> {"ok"}, show |-> {"ok"}, tts |-> {"audio"},
   play |-> {"ok"}]

\* The runs: the channels built, the block duration and the length of each
\* capture stream, the blocks of it that are loud, the collaborators, the
\* tts object ("absent": the pipeline was built with tts=None and no
\* player, and TTS output is off, gui_app.py lines 222 and 336-352), whether
\* stop() is called on the pipelines (stops) and on the capture sources
\* (halts), whether the event loop is
\* prompt (it and the player worker run whatever is ready, on time, before the next
\* audio callback comes: one of the paces the threads can have), and the
\* language the mic channel translates into: "ja" as config.py has it and
\* as the GUI sets it by default, for which no clip can be synthesized, or
\* "hi"
\* A run with the mic channel alone is main.py with ENABLE_LOOPBACK_CHANNEL
\* off: no loopback capture is built and the player is given none.
Faults ==
  [id |-> "faults", channels |-> {mic}, blockMs |-> CoarseMs, len |-> 6, loud |-> {1, 4},
   out |-> AllOutcomes, tts |-> "piper", stops |-> TRUE, prompt |-> FALSE, halts |-> FALSE,
   mic_target_lang |-> "hi"]
NoTts ==
  [id |-> "notts", channels |-> {mic}, blockMs |-> CoarseMs, len |-> 3, loud |-> {1},
   out |-> Healthy, tts |-> "absent", stops |-> FALSE, prompt |-> FALSE, halts |-> FALSE,
   mic_target_lang |-> "ja"]
Capture ==
  [id |-> "capture", channels |-> {mic}, blockMs |-> CHUNK_DURATION_MS,
   len |-> QUEUE_MAX_SIZE + 2, loud |-> {},
   out |-> Healthy, tts |-> "absent", stops |-> FALSE, prompt |-> FALSE, halts |-> FALSE,
   mic_target_lang |-> "ja"]
Overflow ==
  [id |-> "overflow", channels |-> {mic}, blockMs |-> CHUNK_DURATION_MS,
   len |-> OverflowLen, loud |-> {1, 2},
   out |-> Healthy, tts |-> "piper", stops |-> FALSE, prompt |-> TRUE, halts |-> FALSE,
   mic_target_lang |-> "hi"]
Shared ==
  [id |-> "shared", channels |-> {mic, loopback}, blockMs |-> CoarseMs, len |-> 3,
   loud |-> {1},
   out |-> Healthy, tts |-> "piper", stops |-> FALSE, prompt |-> TRUE, halts |-> FALSE,
   mic_target_lang |-> "ja"]

\* block k (1, 2, ...) of a capture stream
ChunkAt(k) ==
  <<Run((k - 1) * BlockLen(env.blockMs), BlockLen(env.blockMs),
        IF k \in env.loud THEN Loud ELSE Quiet)>>

\* a put that keeps the oldest blocks and evicts nothing
safe_put_always(q, chunk) == Append(q, chunk)

\* a put at the head of the queue
safe_put_front(q, chunk) == IF Len(q) < QUEUE_MAX_SIZE THEN <<chunk>> \o q ELSE q

\* _safe_put (mic_capture.py 45-50, loopback_capture.py 66-71):
\* if not self.audio_queue.full(): self.audio_queue.put_nowait(chunk)
safe_put(q, chunk) == IF Len(q) < QUEUE_MAX_SIZE THEN Append(q, chunk) ELSE q

\*   stream: "none" (self.stream is None), "created" (an InputStream that
\*           was not started) or "open"
\*   started, stops, lastOp, stopRaised, afterStop, late: history of the
\*           start() and stop() calls and of the callbacks made after a stop()
\*   onFull: the callbacks that returned while the queue was full
\*   skipped: the blocks the callback returned on without scheduling a put,
\*           and why ("stopped": not running, "gated": the gate was armed)
CapNew ==
  [running |-> TRUE, made |-> 0, pending |-> <<>>, puts |-> 0, dropped |-> <<>>,
   last |-> [chunk |-> 0, full |-> FALSE, before |-> <<>>, after |-> <<>>],
   stream |-> "open", started |-> "ok", stops |-> 0, lastOp |-> "start",
   stopRaised |-> FALSE, afterStop |-> 0, late |-> 0, onFull |-> 0, skipped |-> <<>>]

\* MicCapture.__init__ 21-30, LoopbackCapture.__init__ 28-38: not running,
\* no stream
CaptureNew ==
  [CapNew EXCEPT !.running = FALSE, !.stream = "none", !.started = "no", !.lastOp = "new"]

\* the ways start() can go: the device is missing (loopback only), the
\* InputStream cannot be made, or its start() fails
StartOutcomes(c) ==
  {"ok", "open_fails", "start_fails"} \cup (IF c = loopback THEN {"no_device"} ELSE {})

\* MicCapture.start 57-79: _running is set before the stream is opened and
\* stays set when opening fails; LoopbackCapture.start 165-184: a missing
\* device raises before anything is set, a failure while opening clears
\* _running again
start_source(c, s, outcome) ==
  LET t == [s EXCEPT !.started = outcome, !.lastOp = "start"]
      stream == CASE outcome = "ok" -> "open"
                  [] outcome = "start_fails" -> "created"
                  [] OTHER -> s.stream
  IN CASE outcome = "no_device" -> t
       [] outcome = "ok" -> [t EXCEPT !.running = TRUE, !.stream = stream]
       [] OTHER -> [t EXCEPT !.running = (c = mic), !.stream = stream]

\* a stop() that lets a failure of stream.stop() / stream.close() out
stop_source_unguarded(s, close) ==
  IF s.stream # "none" /\ close = "raise"
  THEN [s EXCEPT !.running = FALSE, !.stops = @ + 1, !.lastOp = "stop",
                 !.stopRaised = TRUE]
  ELSE [s EXCEPT !.running = FALSE, !.stream = "none", !.stops = @ + 1,
                 !.lastOp = "stop"]

\* MicCapture.stop 81-91, LoopbackCapture.stop 186-195: _running is
\* cleared; a stream, if any, is stopped and closed inside try/except and
\* self.stream set to None whether or not that failed
stop_source(s, close) ==
  [s EXCEPT !.running = FALSE, !.stream = "none", !.stops = @ + 1, !.lastOp = "stop"]

\* the event loop has something ready to run for channel c
LoopReady(c) ==
  \/ cap[c].pending # <<>>
  \/ pipe[c].pc = "created"
  \/ pipe[c].pc = "wait" /\ pipe[c].get \in {"scheduled", "woken", "done", "cancelling",
                                              "cancelled"}
  \/ pipe[c].pc \in {"asr", "translate", "tts"} /\ pool.done[c] # None

\* the player worker has something to do now
PlayerReady ==
  \/ player.pc \in {"test", "got"}
  \/ player.pc = "get" /\ (play_queue # <<>> \/ player.waited >= GetTimeoutMs)
  \/ player.pc = "sleep" /\ now >= player.wakeT
  \/ player.pc = "play" /\ now >= player.endT

\* the instant at which the player worker's timed wait ends
PlayerDue ==
  CASE player.pc = "sleep" -> player.wakeT
    [] player.pc = "play" -> player.endT
    [] OTHER -> now + (GetTimeoutMs - player.waited)

\* the player worker is on time: instant t comes no later than the end of
\* the timed wait the worker is in
PlayerOnTime(t) ==
  (player.pc \in {"sleep", "play"} \/ (player.pc = "get" /\ play_queue = <<>>)) => t <= PlayerDue

\* a callback that waits until the queue has room before it returns
AudioCallbackBlocking(c) ==
  /\ Len(audio_queue[c]) < QUEUE_MAX_SIZE
  /\ c \in env.channels
  /\ cap[c].made < env.len
  /\ Len(cap[c].pending) < MaxPending
  /\ cap[c].stream = "open" \/ (cap[c].started = "ok" /\ cap[c].lastOp = "stop")
  /\ \A o \in env.channels : \/ cap[o].made >= cap[c].made
                              \/ cap[o].made = env.len
                              \/ cap[o].stream # "open"
  /\ env.prompt => /\ ~PlayerReady /\ \A o \in env.channels : ~LoopReady(o)
                   /\ PlayerOnTime((cap[c].made + 1) * env.blockMs)
  /\ now' = Max(now, (cap[c].made + 1) * env.blockMs)
  /\ player' = Elapse(player, now' - now)
  /\ LET k == cap[c].made + 1
         skip == \/ ~cap[c].running
                 \/ c = loopback /\ is_gated(now', gate_until)
         late == cap[c].lastOp = "stop"
     IN cap' = [cap EXCEPT ![c].made = k,
                           ![c].pending = IF skip THEN @ ELSE Append(@, k),
                           ![c].afterStop = IF late THEN @ + 1 ELSE @,
                           ![c].late = IF late /\ ~skip THEN @ + 1 ELSE @,
                           ![c].onFull = IF Len(audio_queue[c]) >= QUEUE_MAX_SIZE
                                         THEN @ + 1 ELSE @,
                           ![c].skipped = IF skip
                                          THEN Append(@, [chunk |-> k,
                                                          why |-> IF cap[c].running
                                                                  THEN "gated"
                                                                  ELSE "stopped"])
                                          ELSE @]
  /\ UNCHANGED <<vadVars, gateVars, play_queue, lb, playLog, resetLog, env, audio_queue,
                 pipe, pool, plog, extVars>>

\* _audio_callback on the audio thread: callback k comes at k * blockMs;
\* the block is copied and its put is scheduled on the event loop
\* (call_soon_threadsafe), without waiting for the queue
AudioCallback(c) ==
  /\ c \in env.channels
  /\ cap[c].made < env.len
  /\ Len(cap[c].pending) < MaxPending
  /\ cap[c].stream = "open" \/ (cap[c].started = "ok" /\ cap[c].lastOp = "stop")
  /\ \A o \in env.channels : \/ cap[o].made >= cap[c].made
                              \/ cap[o].made = env.len
                              \/ cap[o].stream # "open"
  /\ env.prompt => /\ ~PlayerReady /\ \A o \in env.channels : ~LoopReady(o)
                   /\ PlayerOnTime((cap[c].made + 1) * env.blockMs)
  /\ now' = Max(now, (cap[c].made + 1) * env.blockMs)
  /\ player' = Elapse(player, now' - now)
  /\ LET k == cap[c].made + 1
         skip == \/ ~cap[c].running
                 \/ c = loopback /\ is_gated(now', gate_until)
         late == cap[c].lastOp = "stop"
     IN cap' = [cap EXCEPT ![c].made = k,
                           ![c].pending = IF skip THEN @ ELSE Append(@, k),
                           ![c].afterStop = IF late THEN @ + 1 ELSE @,
                           ![c].late = IF late /\ ~skip THEN @ + 1 ELSE @,
                           ![c].onFull = IF Len(audio_queue[c]) >= QUEUE_MAX_SIZE
                                         THEN @ + 1 ELSE @,
                           ![c].skipped = IF skip
                                          THEN Append(@, [chunk |-> k,
                                                          why |-> IF cap[c].running
                                                                  THEN "gated"
                                                                  ELSE "stopped"])
                                          ELSE @]
  /\ UNCHANGED <<vadVars, gateVars, play_queue, lb, playLog, resetLog, env, audio_queue,
                 pipe, pool, plog, extVars>>

\* _safe_put run by the event loop; put_nowait wakes the get() suspended on
\* the queue (asyncio.Queue._wakeup_next); a drop is logged with the position
\* of the channel's pipeline at that moment
\*   last: the block of the latest put, whether the queue was full, and the
\*         queue before and after it
RunSafePut(c) ==
  /\ c \in env.channels
  /\ cap[c].pending # <<>>
  /\ LET chunk == Head(cap[c].pending)
         q == audio_queue[c]
         full == safe_put(q, chunk) = q
     IN /\ audio_queue' = [audio_queue EXCEPT ![c] = safe_put(q, chunk)]
        /\ cap' = [cap EXCEPT ![c].pending = Tail(@),
                              ![c].puts = @ + 1,
                              ![c].dropped = IF full
                                             THEN Append(@, [chunk |-> chunk, pc |-> pipe[c].pc])
                                             ELSE @,
                              ![c].last = [chunk |-> chunk, full |-> Len(q) >= QUEUE_MAX_SIZE,
                                           before |-> q, after |-> safe_put(q, chunk)]]
        /\ pipe' = IF ~full /\ pipe[c].get = "blocked"
                   THEN [pipe EXCEPT ![c].get = "woken"] ELSE pipe
  /\ UNCHANGED <<now, vadVars, gateVars, playerVars, resetLog, env, pool, plog, extVars>>

\* ---- ChannelPipeline
\* __init__ (line 62: _running False) and asyncio.create_task(pipeline.run())
\*   pc:      where run() is suspended: "created" (not started), "wait"
\*            (queue get), "asr" / "translate" / "tts" (run_in_executor),
\*            "sleep" (line 151), "returned"
\*   get:     the task wait_for makes of audio_queue.get() (line 86):
\*            "none", "scheduled" (made, its first step not yet run),
\*            "blocked" (suspended on an empty queue), "woken" (a put has
\*            resolved its getter, its next step not yet run), "done" (it
\*            holds a block, run() not yet resumed), "cancelling" (the
\*            timeout came and wait_for has cancelled it) or "cancelled"
\*   item:    the capture index of the block that task holds (0: none)
\*   got:     blocks handed to the VAD; utt: utterances the VAD has returned
\*   entry:   index in plog of the step in progress
\*   stopCalled, stopAt (where run() was when stop() came), gotAfterStop
\*   (blocks dequeued after stop()): history
\*   lastGot, inOrder: the capture index of the latest block handed to the
\*   VAD, and whether every block handed to it so far was captured after the
\*   one before
PipeNew ==
  [running |-> FALSE, pc |-> "created", get |-> "none", item |-> 0,
   vad |-> VadNew, got |-> 0, utt |-> 0,
   transcript |-> None, translated |-> None, entry |-> 0,
   stopCalled |-> FALSE, stopAt |-> "", gotAfterStop |-> 0,
   lastGot |-> 0, inOrder |-> TRUE]

PoolNew == [queued |-> <<>>, running |-> {}, done |-> [c \in env.channels |-> None]]

\* text.strip() on the texts of a run
Strip(s) == IF s = " " THEN "" ELSE s

\* Python's `not x` for an optional string
Falsy(o) == o = None \/ o[1] = ""

\* no transcript counts as blank
BlankNever(transcript) == FALSE

\* line 112: not transcript or not transcript.strip()
Blank(transcript) == Falsy(transcript) \/ Strip(transcript[1]) = ""

\* the segments the engine yields for an outcome
Segments(outcome) ==
  CASE outcome = "text" -> <<"hello">>
    [] outcome = "blank" -> <<" ">>
    [] OTHER -> <<>>

\* " ".join(texts) for at most one text
Join(texts) == IF texts = <<>> THEN "" ELSE texts[1]

\* WhisperASR.transcribe 68-103, how the call ends: with no model loaded it
\* raises RuntimeError (69-70) and returns nothing; else every segment is
\* stripped, the empty ones are left out and the rest joined; an engine
\* error is caught and "" is returned
Transcribed(outcome) ==
  IF outcome = "raise" THEN [end |-> "raise", val |-> "RuntimeError"]
  ELSE IF outcome = "error" THEN [end |-> "return", val |-> ""]
  ELSE LET segments == Segments(outcome)
           stripped == [i \in 1..Len(segments) |-> Strip(segments[i])]
           nonEmpty(text) == text # ""
       IN [end |-> "return", val |-> Join(SelectSeq(stripped, nonEmpty))]

\* argos_translate.translate_text (lines 30-50), with the engine's outcome
translate_text(text, from_lang, to_lang, engine) ==
  IF text = "" \/ Strip(text) = "" THEN ""
  ELSE IF from_lang = to_lang THEN text
  ELSE CASE engine = "ok" -> "konnichiwa"
         [] engine = "empty" -> ""
         [] OTHER -> "[Translation error: " \o text \o "]"

\* the loop head, line 82: while self._running; lines 86-88: wait_for makes
\* a task of audio_queue.get() (asyncio.ensure_future) and a timer, and
\* run() is suspended until one of them releases it
LoopHead(p) ==
  IF p.running THEN [p EXCEPT !.pc = "wait", !.get = "scheduled", !.item = 0]
  ELSE [p EXCEPT !.pc = "returned", !.get = "none", !.item = 0]

\* an exception that leaves the loop
OnExceptionBreak(p) == [p EXCEPT !.pc = "returned"]

\* lines 149-151: except Exception: log, await asyncio.sleep(0.1)
OnException(p) == [p EXCEPT !.pc = "sleep"]

\* a call handed to the pool and not awaited
SubmitNoAwait(p, fn) == [p EXCEPT !.pc = "wait", !.get = "scheduled", !.item = 0]

\* await loop.run_in_executor(_executor, fn, ...): run() is suspended
\* until the work item is done
Await(p, fn) == [p EXCEPT !.pc = fn]

\* one step of an utterance's chain, as logged when it starts; out and val
\* are filled in when it ends: how it ended and the text it returned
Step(c, p, ev) ==
  [ch |-> c, utt |-> p.utt, ev |-> ev, afterStop |-> p.stopCalled, out |-> "pending",
   val |-> None]

Job(c, fn) == [ch |-> c, fn |-> fn]

Outcome(entry, out, val) == [entry EXCEPT !.out = out, !.val = val]
Submit(c, fn) == [pool EXCEPT !.queued = Append(@, Job(c, fn))]
Collect(c) == [pool EXCEPT !.done[c] = None]
restOfChan == <<now, vadVars, gateVars, resetLog, env, extVars>>

\* one VAD object that every channel's run() works on
shared_vad(c) == mic

\* lines 76-78: run() of channel c makes a SileroVAD of its own and hands
\* its chunks to that object; the pipeline that holds it is the channel's
channel_vad(c) == c

\* lines 70-82: the task's first step, up to the first queue wait
RunStart(c) ==
  /\ c \in env.channels
  /\ pipe[c].pc = "created"
  /\ pipe' = [pipe EXCEPT ![c] = LoopHead([@ EXCEPT !.running = TRUE]),
                          ![channel_vad(c)].vad = VadNew]
  /\ UNCHANGED <<restOfChan, playerVars, cap, audio_queue, pool, plog>>

\* asyncio.Queue.get, run by the task of wait_for in a loop step of its own:
\* on its first step it takes the oldest block, or suspends on an empty
\* queue; woken by a put it takes the oldest block.  Its end releases the
\* waiter of wait_for, and run() resumes in a later step
QueueGet(c) ==
  /\ c \in env.channels
  /\ pipe[c].pc = "wait"
  /\ pipe[c].get \in {"scheduled", "woken"}
  /\ IF audio_queue[c] = <<>>
     THEN /\ pipe' = [pipe EXCEPT ![c].get = "blocked"]
          /\ UNCHANGED audio_queue
     ELSE /\ pipe' = [pipe EXCEPT ![c].get = "done", ![c].item = Head(audio_queue[c])]
          /\ audio_queue' = [audio_queue EXCEPT ![c] = Tail(@)]
  /\ UNCHANGED <<restOfChan, playerVars, cap, pool, plog>>

\* lines 86-110: run() resumes with the block of the ended get() and hands
\* it to the VAD; with no utterance the loop goes round, with one the
\* recognition is submitted
GetChunk(c) ==
  /\ c \in env.channels
  /\ pipe[c].pc = "wait"
  /\ pipe[c].get = "done"
  /\ \E r \in {process_chunk(pipe[channel_vad(c)].vad, GhostNew,
                                ChunkAt(pipe[c].item), now)} :
       LET p1 == [pipe[c] EXCEPT !.got = @ + 1,
                                 !.gotAfterStop = IF pipe[c].stopCalled THEN @ + 1 ELSE @,
                                 !.lastGot = pipe[c].item,
                                 !.inOrder = @ /\ pipe[c].item > pipe[c].lastGot]
           p2 == [p1 EXCEPT !.utt = @ + 1, !.transcript = None, !.translated = None,
                            !.entry = Len(plog) + 1, !.get = "none", !.item = 0]
       IN IF r.result = None
          THEN /\ pipe' = [pipe EXCEPT ![c] = LoopHead(p1), ![channel_vad(c)].vad = r.v]
               /\ UNCHANGED <<pool, plog>>
          ELSE /\ pipe' = [pipe EXCEPT ![c] = Await(p2, "asr"), ![channel_vad(c)].vad = r.v]
               /\ plog' = Append(plog, Step(c, p2, "asr"))
               /\ pool' = Submit(c, "asr")
  /\ UNCHANGED <<restOfChan, playerVars, cap, audio_queue>>

\* wait_for(..., timeout=1.0): the timer releases the waiter while the
\* get() has not ended; run() resumes, finds the task not done, cancels it
\* and waits for it to end (_cancel_and_wait).  The get() is suspended, or a
\* put has just woken it and run() is resumed before it.  (The first step of
\* the get() is scheduled when wait_for is called and runs before any
\* timer.)  The second is not measured: the timeout may come at any time,
\* which covers an event loop that is late by any amount
GetTimeout(c) ==
  /\ c \in env.channels
  /\ pipe[c].pc = "wait"
  /\ pipe[c].get \in {"blocked", "woken"}
  /\ pipe' = [pipe EXCEPT ![c].get = "cancelling"]
  /\ UNCHANGED <<restOfChan, playerVars, cap, audio_queue, pool, plog>>

\* the cancelled get() ends with CancelledError in a step of its own: it
\* takes no block, the queue keeps what was put meanwhile
GetCancelled(c) ==
  /\ c \in env.channels
  /\ pipe[c].pc = "wait"
  /\ pipe[c].get = "cancelling"
  /\ pipe' = [pipe EXCEPT ![c].get = "cancelled"]
  /\ UNCHANGED <<restOfChan, playerVars, cap, audio_queue, pool, plog>>

\* lines 89-90: wait_for raises TimeoutError and the loop goes round
TimeoutContinue(c) ==
  /\ c \in env.channels
  /\ pipe[c].pc = "wait"
  /\ pipe[c].get = "cancelled"
  /\ pipe' = [pipe EXCEPT ![c] = LoopHead(@)]
  /\ UNCHANGED <<restOfChan, playerVars, cap, audio_queue, pool, plog>>

\* ThreadPoolExecutor: an idle worker takes the oldest work item
WorkerStart ==
  /\ pool.queued # <<>>
  /\ Cardinality(pool.running) < max_workers
  /\ pool' = [pool EXCEPT !.queued = Tail(@), !.running = @ \cup {Head(pool.queued)}]
  /\ UNCHANGED <<restOfChan, playerVars, cap, audio_queue, pipe, plog>>

\* how the call of a work item can end; PiperTTS.synthesize 71-81 returns
\* None for a language that has no voice (load 48-52 has loaded none for it)
JobOutcomes(j) ==
  CASE j.fn = "asr" -> env.out.asr
    [] j.fn = "translate" -> env.out.engine
    [] OTHER -> IF target_lang(j.ch) \in PIPER_VOICE_MODELS THEN env.out.tts ELSE {"none"}

\* the work item ends and its future is resolved
WorkerFinish(j, outcome) ==
  /\ j \in pool.running
  /\ outcome \in JobOutcomes(j)
  /\ pool' = [pool EXCEPT !.running = @ \ {j}, !.done[j.ch] = Some(outcome)]
  /\ UNCHANGED <<restOfChan, playerVars, cap, audio_queue, pipe, plog>>

\* lines 105-122: run() resumes with the transcript, or with the exception
\* the call raised (which returned no value)
AfterAsr(c) ==
  /\ c \in env.channels
  /\ pipe[c].pc = "asr"
  /\ pool.done[c] # None
  /\ LET p == pipe[c]
         outcome == pool.done[c][1]
         call == Transcribed(outcome)
         logged == [plog EXCEPT ![p.entry] =
                      Outcome(@, outcome, IF call.end = "raise" THEN None ELSE Some(call.val))]
         p1 == [p EXCEPT !.transcript = Some(call.val)]
         p2 == [p1 EXCEPT !.entry = Len(plog) + 1]
     IN IF call.end = "raise"
        THEN /\ pipe' = [pipe EXCEPT ![c] = OnException(p)]
             /\ plog' = logged
             /\ pool' = Collect(c)
        ELSE IF Blank(p1.transcript)
        THEN /\ pipe' = [pipe EXCEPT ![c] = LoopHead(p1)]
             /\ plog' = logged
             /\ pool' = Collect(c)
        ELSE /\ pipe' = [pipe EXCEPT ![c] = Await(p2, "translate")]
             /\ plog' = Append(logged, Step(c, p2, "translate"))
             /\ pool' = [Collect(c) EXCEPT !.queued = Append(@, Job(c, "translate"))]
  /\ UNCHANGED <<restOfChan, playerVars, cap, audio_queue>>

\* lines 116-143: run() resumes with the translation, shows the subtitle
\* and, with TTS output enabled (line 137), submits the synthesis
AfterTranslate(c, show) ==
  /\ c \in env.channels
  /\ pipe[c].pc = "translate"
  /\ pool.done[c] # None
  /\ show \in env.out.show
  /\ LET p == pipe[c]
         engine == pool.done[c][1]
         translated == translate_text(p.transcript[1], source_lang(c), target_lang(c), engine)
         logged == [plog EXCEPT ![p.entry] = Outcome(@, engine, Some(translated))]
         p1 == [p EXCEPT !.translated = Some(translated)]
         shown == Append(logged, Outcome(Step(c, p1, "subtitle"), show, None))
         p2 == [p1 EXCEPT !.entry = Len(shown) + 1]
     IN /\ pool' = IF ~Falsy(p1.translated) /\ show = "ok" /\ TtsOutput
                   THEN [Collect(c) EXCEPT !.queued = Append(@, Job(c, "tts"))]
                   ELSE Collect(c)
        /\ IF Falsy(p1.translated)
           THEN /\ pipe' = [pipe EXCEPT ![c] = LoopHead(p1)]
                /\ plog' = logged
           ELSE IF show = "raise"
           THEN /\ pipe' = [pipe EXCEPT ![c] = OnException(p1)]
                /\ plog' = shown
           ELSE IF ~TtsOutput
           THEN /\ pipe' = [pipe EXCEPT ![c] = LoopHead(p1)]
                /\ plog' = shown
           ELSE /\ pipe' = [pipe EXCEPT ![c] = Await(p2, "tts")]
                /\ plog' = Append(shown, Step(c, p2, "tts"))
  /\ UNCHANGED <<restOfChan, playerVars, cap, audio_queue>>

\* lines 138-145: run() resumes with the clip and hands it to the player
\* (audio_player.py 59-69: put_nowait, a full play queue drops the clip)
AfterTts(c) ==
  /\ c \in env.channels
  /\ pipe[c].pc = "tts"
  /\ pool.done[c] # None
  /\ LET p == pipe[c]
         outcome == pool.done[c][1]
         logged == [plog EXCEPT ![p.entry] =
                      Outcome(@, outcome, IF outcome = "audio" THEN Some("clip") ELSE None)]
     IN /\ pool' = Collect(c)
        /\ pipe' = [pipe EXCEPT ![c] = LoopHead(p)]
        /\ IF outcome = "audio"
           THEN /\ plog' = Append(logged, Outcome(Step(c, p, "play"), "ok", None))
                /\ play_queue' = put_nowait(play_queue, ClipMs)
                /\ playLog' = PlayLogPut(playLog, player.enqueued + 1)
                /\ player' = [player EXCEPT !.enqueued = @ + 1]
           ELSE /\ plog' = logged
                /\ UNCHANGED <<play_queue, player, playLog>>
  /\ UNCHANGED <<restOfChan, lb, cap, audio_queue>>

\* line 151: the sleep after an error ends
SleepDone(c) ==
  /\ c \in env.channels
  /\ pipe[c].pc = "sleep"
  /\ pipe' = [pipe EXCEPT ![c] = LoopHead(@)]
  /\ UNCHANGED <<restOfChan, playerVars, cap, audio_queue, pool, plog>>

\* lines 155-157: stop(), called once by the owner of the pipeline
Stop(c) ==
  /\ c \in env.channels
  /\ env.stops
  /\ ~pipe[c].stopCalled
  /\ pipe' = [pipe EXCEPT ![c].running = FALSE, ![c].stopCalled = TRUE,
                          ![c].stopAt = pipe[c].pc]
  /\ UNCHANGED <<restOfChan, playerVars, cap, audio_queue, pool, plog>>

\* the instant of the next callback of channel c
NextCallback(c) == (cap[c].made + 1) * env.blockMs

\* time passes up to the end of the worker's lead-in sleep, playback or
\* timed-out get(), when no audio callback is due before it; a get() on an
\* empty queue is followed, for a worker that is on time (prompt), only while
\* audio is still to come, and otherwise its waiting time passes with the
\* audio callbacks; a prompt event loop has run what was ready before
PlayerWait ==
  /\ \/ player.pc \in {"sleep", "play"}
     \/ /\ player.pc = "get" /\ play_queue = <<>> /\ env.prompt
        /\ \E c \in env.channels : cap[c].made < env.len
  /\ now < PlayerDue
  /\ env.prompt => \A o \in env.channels : ~LoopReady(o)
  /\ \A c \in env.channels : cap[c].made < env.len => PlayerDue <= NextCallback(c)
  /\ now' = PlayerDue
  /\ player' = Elapse(player, PlayerDue - now)
  /\ UNCHANGED <<vadVars, gateVars, play_queue, lb, playLog, resetLog, chanVars, extVars>>


\* main.py 112-199: the queues, the capture sources, the player and the
\* pipelines are made, the player and the captures started and the tasks
\* created; gui_app.py 336-352 builds the pipelines without a player
InitChan(scenarios) ==
  /\ now = 0
  /\ VadIdle /\ GateNew /\ armers = <<>> /\ ResetIdle /\ ExtIdle
  /\ env \in scenarios
  /\ play_queue = <<>>
  /\ player = IF env.tts = "piper" THEN WorkerStarted ELSE WorkerOff
  /\ lb = [running |-> FALSE, pending |-> <<>>, queue |-> <<>>, delivered |-> 0,
           gatedWhilePlaying |-> 0]
  /\ playLog = PlayLogNew
  /\ cap = [c \in env.channels |-> CapNew]
  /\ audio_queue = [c \in env.channels |-> <<>>]
  /\ pipe = [c \in env.channels |-> PipeNew]
  /\ pool = PoolNew
  /\ plog = <<>>

NextChan ==
  \/ \E c \in {mic, loopback} : AudioCallback(c)
  \/ \E c \in {mic, loopback} : RunSafePut(c)
  \/ \E c \in {mic, loopback} : RunStart(c)
  \/ \E c \in {mic, loopback} : QueueGet(c)
  \/ \E c \in {mic, loopback} : GetChunk(c)
  \/ \E c \in {mic, loopback} : GetTimeout(c)
  \/ \E c \in {mic, loopback} : GetCancelled(c)
  \/ \E c \in {mic, loopback} : TimeoutContinue(c)
  \/ WorkerStart
  \/ \E j \in pool.running : \E o \in JobOutcomes(j) : WorkerFinish(j, o)
  \/ \E c \in {mic, loopback} : AfterAsr(c)
  \/ \E c \in {mic, loopback}, show \in {"ok", "raise"} : AfterTranslate(c, show)
  \/ \E c \in {mic, loopback} : AfterTts(c)
  \/ \E c \in {mic, loopback} : SleepDone(c)
  \/ \E c \in {mic, loopback} : Stop(c)
  \/ PlayerLoopTest
  \/ PlayerTimeout
  \/ PlayerGet
  \/ PlayerArm
  \/ PlayerDone
  \/ PlayerPlayError
  \/ PlayerWait

\* one channel, coarse blocks, collaborators that fail, stop() at any point
SpecChan == InitChan({Faults, NoTts}) /\ [][NextChan]_vars

\* the capture and the dequeue loop on a quiet stream, as configured
NextCapture ==
  \/ AudioCallback(mic)
  \/ RunSafePut(mic)
  \/ RunStart(mic)
  \/ QueueGet(mic)
  \/ GetChunk(mic)
  \/ GetTimeout(mic)
  \/ GetCancelled(mic)
  \/ TimeoutContinue(mic)

SpecCapture == InitChan({Capture}) /\ [][NextCapture]_vars

\* the same with a capture stream that goes on delivering blocks while it
\* is open (PortAudio calls the callback for every block) and an event loop
\* that runs the callbacks scheduled on it; nothing is assumed of the
\* dequeue loop, which may be held up for any time
SpecCaptureLive ==
  SpecCapture /\ WF_vars(AudioCallback(mic)) /\ WF_vars(RunSafePut(mic))

\* healthy collaborators and no stop(), the mic channel alone: the player
\* holds no loopback capture and plays a clip as soon as it is dequeued
NextSolo ==
  \/ \E c \in {mic, loopback} : AudioCallback(c)
  \/ \E c \in {mic, loopback} : RunSafePut(c)
  \/ \E c \in {mic, loopback} : RunStart(c)
  \/ \E c \in {mic, loopback} : QueueGet(c)
  \/ \E c \in {mic, loopback} : GetChunk(c)
  \/ \E c \in {mic, loopback} : GetTimeout(c)
  \/ \E c \in {mic, loopback} : GetCancelled(c)
  \/ \E c \in {mic, loopback} : TimeoutContinue(c)
  \/ WorkerStart
  \/ \E j \in pool.running : \E o \in JobOutcomes(j) : WorkerFinish(j, o)
  \/ \E c \in {mic, loopback} : AfterAsr(c)
  \/ \E c \in {mic, loopback} : AfterTranslate(c, "ok")
  \/ \E c \in {mic, loopback} : AfterTts(c)
  \/ PlayerLoopTest
  \/ PlayerTimeout
  \/ PlayerGet
  \/ PlayerArm
  \/ PlayerDone
  \/ PlayerWait

\* healthy collaborators and no stop(), both channels: the player arms the
\* gate and sleeps before it plays
NextHealthy == NextSolo \/ PlayerPlay

\* one utterance, then audio that keeps coming while its chain runs
SpecOverflow == InitChan({Overflow}) /\ [][NextSolo]_vars

\* CaptureSource.start()
CaptureStart(c, outcome) ==
  /\ c \in env.channels
  /\ cap[c].started = "no"
  /\ cap' = [cap EXCEPT ![c] = start_source(c, @, outcome)]
  /\ UNCHANGED <<now, vadVars, gateVars, playerVars, resetLog, env, audio_queue, pipe, pool,
                 plog, extVars>>

\* CaptureSource.stop(), in any state and any number of times; closing the
\* stream may fail
CaptureStop(c, close) ==
  /\ c \in env.channels
  /\ env.halts
  /\ cap[c].stops < MaxStops
  /\ cap' = [cap EXCEPT ![c] = stop_source(@, close)]
  /\ UNCHANGED <<now, vadVars, gateVars, playerVars, resetLog, env, audio_queue, pipe, pool,
                 plog, extVars>>

\* the two capture sources from their construction on
Lifecycle ==
  [id |-> "lifecycle", channels |-> {mic, loopback}, blockMs |-> CHUNK_DURATION_MS,
   len |-> 3, loud |-> {},
   out |-> Healthy, tts |-> "piper", stops |-> FALSE, prompt |-> FALSE, halts |-> TRUE,
   mic_target_lang |-> "ja"]

InitLifecycle ==
  /\ now = 0
  /\ VadIdle /\ GateNew /\ armers = <<>> /\ PlayerNew /\ ResetIdle /\ ExtIdle
  /\ env = Lifecycle
  /\ cap = [c \in env.channels |-> CaptureNew]
  /\ audio_queue = [c \in env.channels |-> <<>>]
  /\ pipe = [c \in env.channels |-> PipeNew]
  /\ pool = PoolNew
  /\ plog = <<>>

NextLifecycle ==
  \/ \E c \in {mic, loopback} : \E o \in StartOutcomes(c) : CaptureStart(c, o)
  \/ \E c \in {mic, loopback}, close \in {"ok", "raise"} : CaptureStop(c, close)
  \/ \E c \in {mic, loopback} : AudioCallback(c)
  \/ \E c \in {mic, loopback} : RunSafePut(c)

SpecLifecycle == InitLifecycle /\ [][NextLifecycle]_vars

\* the two channels of main.py, sharing the engines and the pool
SpecShared == InitChan({Shared}) /\ [][NextHealthy]_vars

\* main.py with ENABLE_MIC_CHANNEL off, at any pace: the loopback channel
\* alone, whose translation is played while its capture runs (the player
\* holds the loopback capture and arms its gate); the capture may be
\* stopped at any time
Gated ==
  [id |-> "gated", channels |-> {loopback}, blockMs |-> CoarseMs, len |-> GatedLen,
   loud |-> {1},
   out |-> Healthy, tts |-> "piper", stops |-> FALSE, prompt |-> FALSE, halts |-> TRUE,
   mic_target_lang |-> "ja"]
NextOrder ==
  \/ NextHealthy
  \/ \E c \in {mic, loopback}, close \in {"ok", "raise"} : CaptureStop(c, close)

\* the capture on its own at the configured block size, and the loopback
\* channel with the gate and stop()
SpecOrder == InitChan({Capture, Gated}) /\ [][NextOrder]_vars

\* the two channels with the callbacks and the event loop at any pace
SharedFree == [Shared EXCEPT !.id = "sharedfree", !.prompt = FALSE]
SpecSharedFree == InitChan({SharedFree}) /\ [][NextHealthy]_vars

\* ------------------------------------------- the resampling callback
\* device rates a loopback stream is opened at (default_samplerate)
NativeRates == {SAMPLE_RATE, 22050, 44100, 48000}

\* _start_as_input_device line 134: blocksize of the stream
NativeBlockLen(native_sr) == (native_sr * CHUNK_DURATION_MS) \div 1000

\* block lengths handed to the callback: the short ones and the stream's
\* block size
ResampleLens(native_sr) == 0..MaxBlockSamples \cup {NativeBlockLen(native_sr)}

\* _make_resampling_callback lines 80-102: at the target rate the plain
\* callback is used and the block keeps its length; else a block of more
\* than one sample is interpolated at int(len(mono) * ratio) points (ratio
\* = target_sr / native_sr; the double product truncates to the exact
\* quotient's floor for these rates and lengths) and a shorter block is
\* passed on as it is
ResampledLen(n, native_sr, target_sr) ==
  IF native_sr = target_sr THEN n
  ELSE IF n > 1 THEN (n * target_sr) \div native_sr
  ELSE n

\* lines 89-90 and 97-114: the callback returns at once when the capture is
\* not running or the gate is armed, else the resampled block is scheduled
\* for the queue
ResampleCallback ==
  /\ rs.id = "resample" /\ rs.pc = "in"
  /\ rs' = [rs EXCEPT !.pc = "out",
                      !.out = IF rs.running /\ ~is_gated(now, gate_until)
                              THEN Some(ResampledLen(rs.n, rs.native, SAMPLE_RATE))
                              ELSE None]
  /\ UNCHANGED <<now, vadVars, gateVars, playerVars, resetLog, chanVars, app>>

InitResample ==
  /\ now = 0
  /\ gate_until \in {0, GateEnd(0, ClipMs)} /\ gateLog = GateLogNew
  /\ VadIdle /\ armers = <<>> /\ PlayerNew /\ ResetIdle /\ ChanIdle
  /\ app = [id |-> "none"]
  /\ \E native \in NativeRates, running \in BOOLEAN :
       \E n \in ResampleLens(native) :
         rs = [id |-> "resample", pc |-> "in", n |-> n, native |-> native,
               running |-> running, out |-> None]

NextResample == ResampleCallback

SpecResample == InitResample /\ [][NextResample]_vars

\* ------------------------------------- main() and the GUI engine worker
\* app: variant ("cli" is main.py's main(), "gui" is Api._engine_worker),
\*      enabled (the channels whose ENABLE_*_CHANNEL is set), pc, src (the
\*      capture sources), task (per channel: "none", "pending",
\*      "cancelling", "done"), steps (history: steps a task has run),
\*      pipeStopped, player, reported (start failures told to the user),
\*      log (history: the shutdown calls, each with the tasks not yet done)
AppNew(variant, enabled) ==
  [id |-> "app", variant |-> variant, enabled |-> enabled,
   pc |-> IF variant = "cli" THEN "player_start" ELSE "mic_start",
   src |-> [c \in enabled |-> CaptureNew],
   task |-> [c \in enabled |-> "none"],
   steps |-> [c \in enabled |-> 0],
   pipeStopped |-> [c \in enabled |-> FALSE],
   player |-> IF variant = "cli" THEN "new" ELSE "none",
   reported |-> {},
   log |-> <<>>]

\* the event loop is running tasks: main() is suspended in an await; the
\* engine worker is inside loop.run_until_complete
LoopRunning ==
  \/ app.variant = "cli" /\ app.pc \in {"run", "gather"}
  \/ app.variant = "gui" /\ app.pc = "run"

OpenTasks == {c \in app.enabled : app.task[c] \in {"pending", "cancelling"}}
Logged(op, target) == Append(app.log, [op |-> op, target |-> target, open |-> OpenTasks])

\* a start failure ends the program whatever the other channel is
exit_always(variant, failed, enabled) == TRUE

\* main.py 178-179 and 192-193: sys.exit(1) when the other channel is not
\* enabled; gui_app.py 359-366 only logs the failure
exit_on_failure(variant, failed, enabled) ==
  variant = "cli" /\ enabled \ {failed} = {}

\* main.py 169: audio_player.start()
MainPlayerStart ==
  /\ app.pc = "player_start"
  /\ app' = [app EXCEPT !.player = "running", !.pc = "mic_start"]
  /\ UNCHANGED <<now, vadVars, gateVars, playerVars, resetLog, chanVars, rs>>

\* main.py 171-179 (c = mic, next "lb_start") and 181-193 (c = loopback,
\* next "create_tasks"); gui_app.py 356-366: the source, if its channel is
\* enabled, is started; a failure is reported and ends main() when no other
\* channel is enabled
MainCaptureStart(c, outcome) ==
  /\ app.id = "app"
  /\ app.pc = (IF c = mic THEN "mic_start" ELSE "lb_start")
  /\ LET next == IF c = mic THEN "lb_start" ELSE "create_tasks" IN
       IF c \notin app.enabled
       THEN /\ outcome = "ok"
            /\ app' = [app EXCEPT !.pc = next]
       ELSE /\ outcome \in StartOutcomes(c)
            /\ app' = [app EXCEPT
                 !.src[c] = start_source(c, @, outcome),
                 !.reported = IF outcome = "ok" THEN @ ELSE @ \cup {c},
                 !.pc = IF outcome # "ok" /\ exit_on_failure(app.variant, c, app.enabled)
                        THEN "exited" ELSE next]
  /\ UNCHANGED <<now, vadVars, gateVars, playerVars, resetLog, chanVars, rs>>

\* main.py 195-199, gui_app.py 369: a task is created for every pipeline
MainCreateTasks ==
  /\ app.pc = "create_tasks"
  /\ app' = [app EXCEPT !.task = [c \in app.enabled |-> "pending"], !.pc = "run"]
  /\ UNCHANGED <<now, vadVars, gateVars, playerVars, resetLog, chanVars, rs>>

\* the event loop runs a step of the pipeline task of channel c
TaskStep(c) ==
  /\ app.id = "app" /\ c \in app.enabled
  /\ LoopRunning
  /\ app.task[c] = "pending"
  /\ app.steps[c] < MaxTaskSteps
  /\ app' = [app EXCEPT !.steps[c] = @ + 1]
  /\ UNCHANGED <<now, vadVars, gateVars, playerVars, resetLog, chanVars, rs>>

\* main.py 215-223: the shutdown event is set; gui_app.py 376-377: the
\* stop event is set and run_until_complete returns
MainShutdown ==
  /\ app.pc = "run"
  /\ app' = [app EXCEPT !.pc = "stop_pipelines"]
  /\ UNCHANGED <<now, vadVars, gateVars, playerVars, resetLog, chanVars, rs>>

\* main.py 225-226, gui_app.py 380-381: stop() on every pipeline
MainStopPipelines ==
  /\ app.pc = "stop_pipelines"
  /\ app' = [app EXCEPT !.pipeStopped = [c \in app.enabled |-> TRUE],
                        !.log = Logged("pipeline.stop", app.enabled),
                        !.pc = "cancel"]
  /\ UNCHANGED <<now, vadVars, gateVars, playerVars, resetLog, chanVars, rs>>

\* main.py 228-229, gui_app.py 382-383: cancel() on every task; main() then
\* awaits the tasks (231), the engine worker goes on to the captures
MainCancel ==
  /\ app.pc = "cancel"
  /\ app' = [app EXCEPT !.task = [c \in app.enabled |->
                                   IF app.task[c] = "pending" THEN "cancelling"
                                   ELSE app.task[c]],
                        !.log = Logged("task.cancel", app.enabled),
                        !.pc = IF app.variant = "cli" THEN "gather" ELSE "stop_mic"]
  /\ UNCHANGED <<now, vadVars, gateVars, playerVars, resetLog, chanVars, rs>>

\* channel.py 147-149: the running event loop delivers the CancelledError
\* to run() of channel c, which ends
TaskEnd(c) ==
  /\ app.id = "app" /\ c \in app.enabled
  /\ LoopRunning
  /\ app.task[c] = "cancelling"
  /\ app' = [app EXCEPT !.task[c] = "done"]
  /\ UNCHANGED <<now, vadVars, gateVars, playerVars, resetLog, chanVars, rs>>

\* main.py 231: asyncio.gather returns once every task has ended
MainGathered ==
  /\ app.pc = "gather"
  /\ OpenTasks = {}
  /\ app' = [app EXCEPT !.pc = "stop_mic"]
  /\ UNCHANGED <<now, vadVars, gateVars, playerVars, resetLog, chanVars, rs>>

\* main.py 233-236, gui_app.py 385-388: stop() on the capture sources that
\* exist, the microphone first
MainCaptureStop(c, close) ==
  /\ app.id = "app"
  /\ app.pc = (IF c = mic THEN "stop_mic" ELSE "stop_lb")
  /\ LET next == CASE c = mic -> "stop_lb"
                   [] app.variant = "cli" -> "stop_player"
                   [] OTHER -> "done" IN
       IF c \notin app.enabled
       THEN /\ close = "ok"
            /\ app' = [app EXCEPT !.pc = next]
       ELSE app' = [app EXCEPT !.src[c] = stop_source(@, close),
                               !.log = Logged("capture.stop", {c}),
                               !.pc = next]
  /\ UNCHANGED <<now, vadVars, gateVars, playerVars, resetLog, chanVars, rs>>

\* main.py 238-239: audio_player.stop()
MainPlayerStop ==
  /\ app.pc = "stop_player"
  /\ app' = [app EXCEPT !.player = "stopped",
                        !.log = Logged("player.stop", {}),
                        !.pc = "done"]
  /\ UNCHANGED <<now, vadVars, gateVars, playerVars, resetLog, chanVars, rs>>

InitMain ==
  /\ now = 0
  /\ VadIdle /\ GateNew /\ armers = <<>> /\ PlayerNew /\ ResetIdle /\ ChanIdle
  /\ rs = [id |-> "none"]
  /\ \E variant \in {"cli", "gui"}, enabled \in SUBSET {mic, loopback} :
       app = AppNew(variant, enabled)

NextMain ==
  \/ MainPlayerStart
  \/ \E c \in {mic, loopback} : \E o \in StartOutcomes(c) : MainCaptureStart(c, o)
  \/ MainCreateTasks
  \/ \E c \in {mic, loopback} : TaskStep(c)
  \/ MainShutdown
  \/ MainStopPipelines
  \/ MainCancel
  \/ \E c \in {mic, loopback} : TaskEnd(c)
  \/ MainGathered
  \/ \E c \in {mic, loopback}, close \in {"ok", "raise"} : MainCaptureStop(c, close)
  \/ MainPlayerStop

SpecMain == InitMain /\ [][NextMain]_vars

\* ---- gui_app.py: the Api object the window calls, and its engine workers
\* start_engine() calls made in one run
MaxStarts == 2

EngineWorkers == 1..MaxStarts

\* a thread running _engine_worker
\*   pc:      "unstarted"; "asr" / "vad" / "packs" / "download": inside a
\*            loading call; "check_asr" / "check_vad" / "check_dl" /
\*            "check_packs": at the look at the stop event of line 264 / 273 /
\*            300 / 311; "audio" (lines 312-373: loop, queues, captures,
\*            pipelines, tasks); "run" (the polling loop of 376-377);
\*            "cleanup" (the event was seen set, line 380 is next);
\*            "captures" (386 is next); "post" (392 is next); "finally"
\*            (line 400 is next); "exited"
\*   sources: the worker's capture sources: "none", "open" or "stopped"
\*   pipelines: the worker's pipelines and tasks: "none", "running" or
\*            "stopped"
\*   stopped_msgs: the {"type": "stopped"} messages the worker has posted
\*   stop_requests: stop_engine() calls made while the worker was alive
WorkerNew ==
  [pc |-> "unstarted", sources |-> "none", pipelines |-> "none", stopped_msgs |-> 0,
   stop_requests |-> 0]

\* Api.__init__ 180-184; engine_thread is the number of the latest worker
\* (0: None); overlapped: some start_engine() came while _running was set
\* or while another start_engine() was under way
\*   starts, flagged: the start_engine() calls that have run line 224, and
\*           those of them that have run line 225 (engine_thread of them
\*           have run lines 226-227)
\*   stops, cleared: the stop_engine() calls that have run line 232, and
\*           those of them that have run line 233
\* (the calls come from the GUI, each on a thread of its own)
ApiNew ==
  [id |-> "api", stop_event |-> FALSE, running |-> FALSE, engine_thread |-> 0,
   starts |-> 0, flagged |-> 0, stops |-> 0, cleared |-> 0,
   overlapped |-> FALSE, worker |-> [w \in EngineWorkers |-> WorkerNew]]

\* the thread of worker w is alive
Alive(w) == app.worker[w].pc \notin {"unstarted", "exited"}

\* start_engine 209-224: the call applies the settings and clears the stop
\* event, whatever an earlier worker is doing
StartEngine ==
  /\ app.id = "api"
  /\ app.starts < MaxStarts
  /\ app' = [app EXCEPT !.stop_event = FALSE,
                        !.starts = @ + 1,
                        !.overlapped = @ \/ app.running \/ app.starts > app.engine_thread]
  /\ UNCHANGED <<now, vadVars, gateVars, playerVars, resetLog, chanVars, rs>>

\* start_engine 225: self._running = True
StartEngineRunning ==
  /\ app.id = "api"
  /\ app.flagged < app.starts
  /\ app' = [app EXCEPT !.running = TRUE, !.flagged = @ + 1]
  /\ UNCHANGED <<now, vadVars, gateVars, playerVars, resetLog, chanVars, rs>>

\* start_engine 226-228: a new worker thread is made and started
StartEngineThread ==
  /\ app.id = "api"
  /\ app.engine_thread < app.flagged
  /\ app' = [app EXCEPT !.engine_thread = @ + 1,
                        !.worker[app.engine_thread + 1].pc = "asr"]
  /\ UNCHANGED <<now, vadVars, gateVars, playerVars, resetLog, chanVars, rs>>

\* stop_engine 232: self._stop_event.set()
StopEngine ==
  /\ app.id = "api"
  /\ app.stops < MaxStops
  /\ app' = [app EXCEPT !.stop_event = TRUE,
                        !.stops = @ + 1,
                        !.worker = [w \in EngineWorkers |->
                                      IF Alive(w) THEN [@[w] EXCEPT !.stop_requests = @ + 1]
                                      ELSE @[w]]]
  /\ UNCHANGED <<now, vadVars, gateVars, playerVars, resetLog, chanVars, rs>>

\* stop_engine 233-234: self._running = False
StopEngineRunning ==
  /\ app.id = "api"
  /\ app.cleared < app.stops
  /\ app' = [app EXCEPT !.running = FALSE, !.cleared = @ + 1]
  /\ UNCHANGED <<now, vadVars, gateVars, playerVars, resetLog, chanVars, rs>>

\* where a loading call that returned leads: to the look at the stop event
\* that follows it
NextStage(pc, outcome) ==
  CASE pc = "asr" -> "check_asr"
    [] pc = "vad" -> "check_vad"
    [] pc = "packs" -> IF outcome = "needed" THEN "check_dl" ELSE "check_packs"
    [] pc = "download" -> IF outcome = "more" THEN "check_dl" ELSE "check_packs"

\* where a look at the stop event that found it clear leads
AfterCheck(pc) ==
  CASE pc = "check_asr" -> "vad"
    [] pc = "check_vad" -> "packs"
    [] pc = "check_dl" -> "download"
    [] pc = "check_packs" -> "audio"

\* the ways a loading call can go: it returns, or raises (caught at 395-398,
\* which posts 'stopped'); the survey of the language packs (276-293) finds
\* nothing to download ("ok") or something ("needed"); a download (301)
\* succeeds as the last one ("ok") or with more to come ("more"), or fails
\* (302-305, which posts 'stopped' and returns)
LoadOutcomes(pc) ==
  CASE pc = "packs" -> {"ok", "needed", "raise"}
    [] pc = "download" -> {"ok", "more", "fail", "raise"}
    [] OTHER -> {"ok", "raise"}

\* _engine_worker 247-310: one loading call comes to its end; a failure
\* posts 'stopped' and leaves for the finally
WorkerLoad(w, outcome) ==
  /\ app.id = "api"
  /\ app.worker[w].pc \in {"asr", "vad", "packs", "download"}
  /\ outcome \in LoadOutcomes(app.worker[w].pc)
  /\ app' = IF outcome \in {"raise", "fail"}
            THEN [app EXCEPT !.worker[w].pc = "finally",
                             !.worker[w].stopped_msgs = @ + 1]
            ELSE [app EXCEPT !.worker[w].pc = NextStage(@, outcome)]
  /\ UNCHANGED <<now, vadVars, gateVars, playerVars, resetLog, chanVars, rs>>

\* _engine_worker 264, 273, 300, 311: `if self._stop_event.is_set(): return`
WorkerCheck(w) ==
  /\ app.id = "api"
  /\ app.worker[w].pc \in {"check_asr", "check_vad", "check_dl", "check_packs"}
  /\ app' = IF app.stop_event
            THEN [app EXCEPT !.worker[w].pc = "finally"]
            ELSE [app EXCEPT !.worker[w].pc = AfterCheck(@)]
  /\ UNCHANGED <<now, vadVars, gateVars, playerVars, resetLog, chanVars, rs>>

\* _engine_worker 312-373: the loop, the queues, the capture sources and
\* the pipelines are made, the captures started and the tasks created
WorkerAudio(w) ==
  /\ app.id = "api"
  /\ app.worker[w].pc = "audio"
  /\ app' = [app EXCEPT !.worker[w].pc = "run", !.worker[w].sources = "open",
                        !.worker[w].pipelines = "running"]
  /\ UNCHANGED <<now, vadVars, gateVars, playerVars, resetLog, chanVars, rs>>

\* _engine_worker 376-377: one test of `while not
\* self._stop_event.is_set()`; with the event clear the loop runs for another
\* 0.5 s
WorkerPoll(w) ==
  /\ app.id = "api"
  /\ app.worker[w].pc = "run"
  /\ app' = IF app.stop_event THEN [app EXCEPT !.worker[w].pc = "cleanup"] ELSE app
  /\ UNCHANGED <<now, vadVars, gateVars, playerVars, resetLog, chanVars, rs>>

\* _engine_worker 380-383: p.stop() on every pipeline, t.cancel() on every
\* task
WorkerStopPipelines(w) ==
  /\ app.id = "api"
  /\ app.worker[w].pc = "cleanup"
  /\ app' = [app EXCEPT !.worker[w].pc = "captures", !.worker[w].pipelines = "stopped"]
  /\ UNCHANGED <<now, vadVars, gateVars, playerVars, resetLog, chanVars, rs>>

\* _engine_worker 385-390: the capture sources are stopped, then
\* gui_subs.stop() and loop.close()
WorkerStopCaptures(w) ==
  /\ app.id = "api"
  /\ app.worker[w].pc = "captures"
  /\ app' = [app EXCEPT !.worker[w].pc = "post", !.worker[w].sources = "stopped"]
  /\ UNCHANGED <<now, vadVars, gateVars, playerVars, resetLog, chanVars, rs>>

\* _engine_worker 392-393: the 'stopped' message is posted
WorkerPost(w) ==
  /\ app.id = "api"
  /\ app.worker[w].pc = "post"
  /\ app' = [app EXCEPT !.worker[w].pc = "finally", !.worker[w].stopped_msgs = @ + 1]
  /\ UNCHANGED <<now, vadVars, gateVars, playerVars, resetLog, chanVars, rs>>

\* _engine_worker 399-400: `finally: self._running = False`, on every way
\* out, and the thread ends
WorkerFinally(w) ==
  /\ app.id = "api"
  /\ app.worker[w].pc = "finally"
  /\ app' = [app EXCEPT !.worker[w].pc = "exited", !.running = FALSE]
  /\ UNCHANGED <<now, vadVars, gateVars, playerVars, resetLog, chanVars, rs>>

InitGui ==
  /\ now = 0
  /\ VadIdle /\ GateNew /\ armers = <<>> /\ PlayerNew /\ ResetIdle /\ ChanIdle
  /\ rs = [id |-> "none"]
  /\ app = ApiNew

NextGui ==
  \/ StartEngine
  \/ StartEngineRunning
  \/ StartEngineThread
  \/ StopEngine
  \/ StopEngineRunning
  \/ \E w \in EngineWorkers, o \in {"ok", "needed", "more", "raise", "fail"} :
       WorkerLoad(w, o)
  \/ \E w \in EngineWorkers : WorkerCheck(w)
  \/ \E w \in EngineWorkers : WorkerAudio(w)
  \/ \E w \in EngineWorkers : WorkerPoll(w)
  \/ \E w \in EngineWorkers : WorkerStopPipelines(w)
  \/ \E w \in EngineWorkers : WorkerStopCaptures(w)
  \/ \E w \in EngineWorkers : WorkerPost(w)
  \/ \E w \in EngineWorkers : WorkerFinally(w)

SpecGui == InitGui /\ [][NextGui]_vars

\* ------------------------------------------------------------- the claims
InSeq(q) == {q[i] : i \in 1..Len(q)}

\* C1: whenever the player worker is playing a clip (it is in sd.play and
\* the clip has not run its duration) the loopback gate is armed, and no
\* block delivered to the loopback callback during a playback is scheduled
\* for, or put on, the loopback queue.
C1_GatedWhilePlaying ==
  /\ (player.pc = "play" /\ now < player.endT) => now < gate_until
  /\ \A b \in InSeq(lb.pending) \cup InSeq(lb.queue) : ~b.playing

\* C2: the gate is armed throughout the playback of a clip and for the full
\* FEEDBACK_GATE_BUFFER_S after the playback has ended, and, no other clip
\* being armed, it is not armed once duration + buffer has elapsed from the
\* arm time.
C2_GateCoversPlaybackPlusBuffer ==
  /\ player.pc = "play" => now < gate_until
  /\ (player.pc \in {"test", "get"} /\ player.played >= 1
        /\ now < player.endT + FEEDBACK_GATE_BUFFER_MS) => now < gate_until
  /\ (player.pc \in {"test", "get"} /\ player.played = 1
        /\ now >= player.armT + player.duration + FEEDBACK_GATE_BUFFER_MS)
       => ~(now < gate_until)

\* C3: every write of set_gate leaves _gate_until at least as large as it
\* was just before the write, under every interleaving of the callers.
C3_GateNeverDecreases == gateLog.after >= gateLog.before

\* C4: with one caller at a time, set_gate(d1) immediately followed by
\* set_gate(d2), d2 < d1, leaves _gate_until unchanged, and after a
\* set_gate(d) made at time t the gate is armed at every time before
\* t + d + FEEDBACK_GATE_BUFFER_S, whatever set_gate calls follow.
C4_SequentialArms ==
  LET calls == gateLog.calls IN
  /\ \A i \in 2..Len(calls) :
       (calls[i].t = calls[i - 1].t /\ calls[i].d < calls[i - 1].d)
         => calls[i].after = calls[i].before
  /\ \A i \in 1..Len(calls) :
       now < calls[i].t + calls[i].d + FEEDBACK_GATE_BUFFER_MS => now < gate_until

\* C4 witness: a shorter arm has directly followed a longer one, its own
\* window has run out and the gate is still armed.
C4_Witness ==
  LET calls == gateLog.calls IN
  /\ Len(calls) >= 2
  /\ calls[2].t = calls[1].t /\ calls[2].d < calls[1].d
  /\ now >= calls[2].t + calls[2].d + FEEDBACK_GATE_BUFFER_MS
  /\ now < gate_until

\* C5: an utterance returned by process_chunk is never longer than
\* MAX_SPEECH_DURATION_S.
C5_UtteranceWithinMax ==
  result # None => ALen(result[1]) * 1000 <= MAX_SPEECH_DURATION_MS * SAMPLE_RATE

\* C6: a segment finalized by the silence timeout is returned only if it
\* lasts at least MIN_SPEECH_DURATION_S; a shorter one is discarded, nothing
\* is returned for it, and either way the VAD is left Idle with an empty
\* speech buffer.
C6_SilenceTimeoutMinDuration ==
  \A f \in InSeq(fins) :
    /\ f.kind = "emit" =>
         /\ f.samples * 1000 >= MIN_SPEECH_DURATION_MS * SAMPLE_RATE
         /\ result # None
         /\ Len(fins) = 1 => ALen(result[1]) = f.samples
    /\ f.kind = "discard" =>
         /\ f.samples * 1000 < MIN_SPEECH_DURATION_MS * SAMPLE_RATE
         /\ Len(fins) = 1 => result = None
    /\ f.kind \in {"emit", "discard"} => ~f.after_speaking /\ f.after_buffer = 0

\* C6 witness: a call has returned an utterance finalized by the silence
\* timeout.
C6_Witness ==
  /\ Len(fins) = 1 /\ fins[1].kind = "emit"
  /\ result # None /\ ~vad.is_speaking /\ vad.speech_buffer = <<>>

\* C7: the silence timeout never finalizes a segment (emitting or
\* discarding it) on a run of below-threshold windows whose audio lasts
\* less than VAD_MIN_SILENCE_MS, whatever the timing of the calls.
C7_ShortSilenceNeverFinalizes ==
  \A f \in InSeq(fins) :
    f.kind \in {"emit", "discard"} =>
      f.silRun * silero_chunk_size * 1000 >= VAD_MIN_SILENCE_MS * SAMPLE_RATE

\* C8: in real time, 600 ms above threshold then 700 ms below give exactly
\* one utterance, of approximately 600 ms, and leave the VAD Idle.
C8_Speech600OneUtterance ==
  (feed.id = "speech600" /\ feed.fed = feed.total) =>
    /\ Len(ghost.utterances) = 1
    /\ LET n == ALen(ghost.utterances[1])
           diff == IF n >= feed.speech THEN n - feed.speech ELSE feed.speech - n
       IN diff * 1000 <= ApproxToleranceMs * SAMPLE_RATE
    /\ ~vad.is_speaking

\* C9: in real time, MAX_SPEECH_DURATION_S + 1 s of continuous speech give
\* exactly one utterance; it is force-flushed at the first window processed
\* at or after speech_start + MAX_SPEECH_DURATION_S, the flush resets the
\* VAD, and the segment that follows holds only windows after the flush.
C9_ContinuousForceFlush ==
  feed.id = "continuous" =>
    /\ Len(ghost.utterances) <= 1 /\ ghost.finCount = Len(ghost.utterances)
    /\ feed.fed = feed.total => Len(ghost.utterances) = 1
    /\ \A f \in InSeq(fins) :
         /\ f.kind = "force"
         /\ f.t - f.speech_start[1] >= MAX_SPEECH_DURATION_MS
         /\ ~f.after_speaking /\ f.after_buffer = 0
    /\ (vad.is_speaking /\ ghost.lastWinT # None)
         => ghost.lastWinT[1] - vad.speech_start[1] < MAX_SPEECH_DURATION_MS
    /\ (ghost.utterances # <<>> /\ vad.speech_buffer # <<>>) =>
         LET u == ghost.utterances[1]
             last == u[Len(u)]
         IN /\ vad.speech_buffer[1][1].lo >= last.lo + last.n
            /\ vad.speech_start[1] >= ghost.lastFin[1].t

\* C9 witness: the whole input has been fed, one utterance was flushed and
\* a fresh segment is being accumulated.
C9_Witness ==
  /\ feed.id = "continuous" /\ feed.fed = feed.total
  /\ Len(ghost.utterances) = 1 /\ ghost.lastFin[1].kind = "force"
  /\ vad.is_speaking /\ vad.speech_buffer # <<>>

\* C10: in real time, 200 ms above threshold then 700 ms below give no
\* utterance: the burst is discarded as shorter than MIN_SPEECH_DURATION_S.
C10_ShortBurstNotEmitted ==
  feed.id = "burst200" => ghost.utterances = <<>>

\* C11: every reset() call, from whatever state the VAD has reached, leaves
\* the five fields as the constructor sets them (not speaking, speech_start
\* and silence_start unset, speech buffer and leftover empty), and a reset()
\* that follows a reset() directly changes nothing.
C11_ResetGivesFreshState ==
  resetLog.n > 0 =>
    /\ resetLog.after = VadNew
    /\ (resetLog.at = ghost.calls => vad = VadNew)
    /\ (resetLog.streak >= 2 => resetLog.after = resetLog.before)

\* two reset() calls in a row on a VAD that was in the middle of an
\* utterance, in trailing silence, with a sub-window remainder kept
C11_Witness ==
  /\ resetLog.streak >= 2
  /\ resetLog.at = ghost.calls
  /\ resetLog.dirty.is_speaking
  /\ resetLog.dirty.speech_start # None
  /\ resetLog.dirty.silence_start # None
  /\ resetLog.dirty.speech_buffer # <<>>
  /\ resetLog.dirty.leftover # <<>>

\* C12: the audio queue never holds more than QUEUE_MAX_SIZE blocks; a put
\* on a full queue drops the incoming block and leaves the queued blocks as
\* they were; the callback returns without waiting for the queue: every
\* block delivered has had its put scheduled or run (or was skipped), and
\* the capture delivers every block of its stream in the end whatever the
\* queue holds and whether or not anything is dequeued;
\* QUEUE_MAX_SIZE + 1 blocks put with nothing dequeued leave the first
\* QUEUE_MAX_SIZE queued and drop exactly the last.
C12_QueueBoundedDropsIncoming ==
  /\ [](\A c \in DOMAIN audio_queue :
         /\ Len(audio_queue[c]) <= QUEUE_MAX_SIZE
         /\ cap[c].last.full =>
              /\ cap[c].last.after = cap[c].last.before
              /\ cap[c].dropped # <<>>
              /\ cap[c].dropped[Len(cap[c].dropped)].chunk = cap[c].last.chunk
         /\ ~cap[c].last.full /\ cap[c].puts > 0 =>
              cap[c].last.after = Append(cap[c].last.before, cap[c].last.chunk)
         /\ cap[c].made = cap[c].puts + Len(cap[c].pending) + Len(cap[c].skipped)
         /\ (cap[c].puts = QUEUE_MAX_SIZE + 1 /\ pipe[c].got = 0 /\ pipe[c].item = 0) =>
              /\ audio_queue[c] = [i \in 1..QUEUE_MAX_SIZE |-> i]
              /\ Len(cap[c].dropped) = 1
              /\ cap[c].dropped[1].chunk = QUEUE_MAX_SIZE + 1)
  /\ <>(\A c \in DOMAIN cap : cap[c].made = env.len)

\* QUEUE_MAX_SIZE + 1 blocks captured and put while the pipeline has not
\* dequeued any: the last put found the queue full, and a callback that came
\* while the queue was full has returned with a further put scheduled
C12_Witness ==
  /\ env.id = "capture"
  /\ cap[mic].puts = QUEUE_MAX_SIZE + 1
  /\ pipe[mic].got = 0 /\ pipe[mic].item = 0
  /\ cap[mic].last.full
  /\ Len(audio_queue[mic]) = QUEUE_MAX_SIZE
  /\ cap[mic].onFull >= 1
  /\ cap[mic].pending # <<>>

\* the position of a step in an utterance's chain
Rank(ev) ==
  CASE ev = "asr" -> 1
    [] ev = "translate" -> 2
    [] ev = "subtitle" -> 3
    [] ev = "tts" -> 4
    [] OTHER -> 5

\* C13: within a channel the steps are started utterance after utterance
\* and, within an utterance, in the order recognition, translation,
\* subtitle, synthesis, playback enqueue; no step of an utterance starts
\* while a step of an earlier utterance of the channel is still in progress.
\* So the subtitle and the playback enqueue of an earlier utterance precede
\* those of a later one.
C13_ChainsInArrivalOrder ==
  \A i, j \in 1..Len(plog) :
    (i < j /\ plog[i].ch = plog[j].ch) =>
      /\ plog[i].utt <= plog[j].utt
      /\ plog[i].utt = plog[j].utt => Rank(plog[i].ev) < Rank(plog[j].ev)
      /\ plog[i].utt < plog[j].utt => plog[i].out # "pending"

\* two utterances of a channel, both shown and both enqueued for playback
C13_Witness ==
  \E i, j, k, l \in 1..Len(plog) :
    /\ i < j /\ j < k /\ k < l
    /\ plog[i].utt = 1 /\ plog[i].ev = "subtitle" /\ plog[i].out = "ok"
    /\ plog[j].utt = 1 /\ plog[j].ev = "play"
    /\ plog[k].utt = 2 /\ plog[k].ev = "subtitle" /\ plog[k].out = "ok"
    /\ plog[l].utt = 2 /\ plog[l].ev = "play"

\* C14: a step that raises is the last step of its utterance (none of the
\* remaining steps runs), and run() has returned only if stop() was called:
\* the exception is caught in the loop and the loop goes on.
C14_ExceptionEndsUtteranceOnly ==
  /\ \A i, j \in 1..Len(plog) :
       (i < j /\ plog[i].out = "raise" /\ plog[i].ch = plog[j].ch)
         => plog[j].utt > plog[i].utt
  /\ \A c \in DOMAIN pipe :
       /\ pipe[c].pc = "returned" => pipe[c].stopCalled
       /\ (pipe[c].entry > 0 /\ pipe[c].entry <= Len(plog) /\ plog[pipe[c].entry].out = "raise")
            => pipe[c].pc \notin {"asr", "translate", "tts"}

\* the recognition of the first utterance raised, and the second utterance
\* of the channel went through its whole chain
C14_Witness ==
  \E i, j, k \in 1..Len(plog) :
    /\ i < j /\ j < k
    /\ plog[i].utt = 1 /\ plog[i].ev = "asr" /\ plog[i].out = "raise"
    /\ plog[j].utt = 2 /\ plog[j].ev = "subtitle" /\ plog[j].out = "ok"
    /\ plog[k].utt = 2 /\ plog[k].ev = "play"
    /\ ~pipe[mic].stopCalled

\* C15: once stop() has been called on a pipeline whose task exists, run()
\* is on its way out: until it has returned, _running is false, so that the
\* next test of the loop head ends the loop with no further audio and no
\* cancellation. (With _running true again after stop(), the loop only
\* goes round on the queue timeout.)
C15_StopLeadsToReturn ==
  \A c \in DOMAIN pipe :
    pipe[c].stopCalled => (pipe[c].pc = "returned" \/ ~pipe[c].running)

\* C16: a stop() that comes while run() is suspended, in the queue wait or
\* in an external call, is the end of the work: no step of a chain is
\* started after it, and no block is dequeued and processed after it.
C16_NoStepAfterStop ==
  \A c \in DOMAIN pipe :
    (pipe[c].stopCalled /\ pipe[c].stopAt \in {"wait", "asr", "translate", "tts"}) =>
      /\ pipe[c].gotAfterStop = 0
      /\ \A i \in 1..Len(plog) : plog[i].ch = c => ~plog[i].afterStop

\* C17: no block is dropped on a full queue while the channel's pipeline
\* is suspended in a recognition, translation or synthesis call: the
\* pipeline keeps dequeuing during the call.
C17_NoDropDuringExternalCall ==
  \A c \in DOMAIN cap :
    \A i \in 1..Len(cap[c].dropped) :
      cap[c].dropped[i].pc \notin {"asr", "translate", "tts"}

\* the step ev of the utterance that entry i belongs to, started before i
Earlier(i, ev) ==
  {j \in 1..(i - 1) : plog[j].ch = plog[i].ch /\ plog[j].utt = plog[i].utt /\ plog[j].ev = ev}

\* C18: the translation of an utterance is started only with a transcript
\* that is neither empty nor blank; its subtitle only with a translated text
\* that is not empty; its synthesis only after its subtitle, and only with
\* ENABLE_TTS_OUTPUT; its playback enqueue only with the audio the synthesis
\* returned. A step that returns nothing usable is the last of its
\* utterance and is no error: run() goes back to the loop head.
C18_StepsGuarded ==
  \A i \in 1..Len(plog) :
    /\ plog[i].ev = "translate" =>
         \E j \in Earlier(i, "asr") :
           plog[j].val # None /\ plog[j].val[1] # "" /\ plog[j].val[1] # " "
    /\ plog[i].ev = "subtitle" =>
         \E j \in Earlier(i, "translate") : plog[j].val # None /\ plog[j].val[1] # ""
    /\ plog[i].ev = "tts" =>
         TtsOutput /\ \E j \in Earlier(i, "subtitle") : plog[j].out = "ok"
    /\ plog[i].ev = "play" => \E j \in Earlier(i, "tts") : plog[j].val # None
    /\ (plog[i].out \in {"empty", "blank", "error", "none"}) =>
         /\ \A j \in (i + 1)..Len(plog) :
              plog[j].ch = plog[i].ch => plog[j].utt > plog[i].utt
         /\ pipe[plog[i].ch].entry = i => pipe[plog[i].ch].pc \in {"wait", "returned"}

\* a blank transcript ended the first utterance, and the second one went
\* through translation, subtitle, synthesis and playback enqueue
C18_Witness ==
  \E i, j, k \in 1..Len(plog) :
    /\ i < j /\ j < k
    /\ plog[i].utt = 1 /\ plog[i].ev = "asr" /\ plog[i].out = "blank"
    /\ plog[j].utt = 2 /\ plog[j].ev = "translate" /\ plog[j].out = "ok"
    /\ plog[k].utt = 2 /\ plog[k].ev = "play"

\* C19: an utterance for which a collaborator failed (the recognition or
\* the subtitle display raised, the recognition engine failed and "" was
\* returned, the synthesis gave up and returned None, the translation
\* engine failed inside translate_text)
\* gets no subtitle and no clip: in particular no subtitle step and no
\* playback enqueue is logged for an utterance whose translation failed.
C19_FailureMeansNoOutput ==
  \A i, j \in 1..Len(plog) :
    (/\ i # j
     /\ plog[i].ch = plog[j].ch /\ plog[i].utt = plog[j].utt
     /\ plog[i].out \in {"raise", "error", "none", "fail"})
      => plog[j].ev \notin {"subtitle", "play"}

\* C20: the pool never runs a call of the mic channel and a call of the
\* loopback channel into the same shared engine (the recognition engine,
\* the synthesis engine) at the same time.
C20_SharedEngineCallsSerialized ==
  \A j1, j2 \in pool.running :
    (j1.ch # j2.ch /\ j1.fn = j2.fn) => j1.fn \notin {"asr", "tts"}

\* C21: play() returns without waiting in every state and the play queue
\* never holds more than 20 clips; a play() call made when the queue holds
\* 20 clips drops the new clip and leaves the queued clips and their order
\* as they were.
C21_FullPlayQueueDropsNewClip ==
  /\ Len(play_queue) <= PlayQueueMax
  /\ Len(playLog.queued) = Len(play_queue)
  /\ player.enqueued < PlayBound => ENABLED play(ShortClip)
  /\ playLog.last.full =>
        /\ Len(playLog.last.before) = PlayQueueMax
        /\ playLog.last.after = playLog.last.before
        /\ playLog.last.id \in InSeq(playLog.dropped)
        /\ playLog.last.id \notin InSeq(playLog.accepted)

C21_Witness ==
  /\ playLog.last.full
  /\ Len(play_queue) = PlayQueueMax
  /\ Len(playLog.armed) >= 1

\* C22: the gate is armed for a clip before its playback starts; the worker
\* takes, arms and plays one clip at a time, in the order the clips were
\* accepted, and no clip twice: a clip is started only after the one before
\* it has ended (played to its end, failed or cancelled).
IsPrefix(a, b) == Len(a) <= Len(b) /\ \A i \in 1..Len(a) : a[i] = b[i]
StartedIds == [i \in 1..Len(playLog.started) |-> playLog.started[i].id]
C22_GateArmedBeforeEachClipInOrder ==
  /\ IsPrefix(StartedIds, playLog.armed)
  /\ IsPrefix(playLog.armed, playLog.taken)
  /\ IsPrefix(playLog.taken, playLog.accepted)
  /\ Len(playLog.taken) <= Len(StartedIds) + 1
  /\ Len(playLog.armed) = Len(playLog.taken) - (IF player.pc = "got" THEN 1 ELSE 0)
  /\ \A i, j \in 1..Len(StartedIds) : i # j => StartedIds[i] # StartedIds[j]
  /\ Len(StartedIds) = Len(playLog.finished) + Len(playLog.failed)
                          + Len(playLog.cancelled) + (IF player.pc = "play" THEN 1 ELSE 0)
  /\ player.pc \in {"sleep", "play"} =>
        /\ player.armT <= now
        /\ gateLog.promised >= GateEnd(player.armT, player.duration)
  /\ player.pc = "play" => player.armT <= player.startT

C22_Witness ==
  /\ Len(playLog.started) = 2
  /\ player.pc = "play"
  /\ player.played = 1
  /\ gateLog.writes = 2

\* C23: once stop() has been called the worker starts no playback: the
\* clips queued or dequeued at that moment are not played and the playback
\* in progress is cancelled.
C23_NoPlaybackAfterStop ==
  /\ \A i \in 1..Len(playLog.started) : ~playLog.started[i].afterStop
  /\ \A i \in 1..Len(playLog.finished) : ~playLog.finished[i].afterStop

\* C24: a step in which a channel neither starts its run() nor processes a
\* chunk leaves that channel's VAD state (is_speaking, speech_start,
\* silence_start, speech buffer, leftover) as it was, whatever the other
\* channel does in that step; and a channel processes a chunk only in a step
\* in which its own run() is resumed with the block its get() has taken, a
\* step that changes nothing of the other channel's pipeline.
C24_ChannelOwnsItsVad ==
  [][\A c \in DOMAIN pipe :
       /\ (/\ pipe'[c].got = pipe[c].got
           /\ (pipe'[c].pc = "created") = (pipe[c].pc = "created"))
          => pipe'[c].vad = pipe[c].vad
       /\ pipe'[c].got # pipe[c].got
          => /\ pipe[c].get = "done" /\ pipe[c].item # 0
             /\ \A o \in DOMAIN pipe \ {c} : pipe'[o] = pipe[o]]_vars

C24_Witness ==
  /\ env.channels = {mic, loopback}
  /\ \A c \in env.channels : pipe[c].got >= 1
  /\ pipe[mic].vad.is_speaking # pipe[loopback].vad.is_speaking

\* C25: stop() on a capture source raises nothing, in whatever state the
\* source is (never started, started, start failed) and however often it
\* is called; after it the source is not running and has no stream, and a
\* callback invoked after it schedules no chunk.
C25_CaptureStopIdempotent ==
  \A c \in DOMAIN cap :
    /\ ~cap[c].stopRaised
    /\ cap[c].late = 0
    /\ cap[c].lastOp = "stop" => ~cap[c].running /\ cap[c].stream = "none"

C25_Witness ==
  /\ env.id = "lifecycle"
  /\ cap[mic].started = "ok" /\ cap[mic].stops = MaxStops /\ cap[mic].afterStop >= 1
  /\ cap[loopback].started = "start_fails" /\ cap[loopback].stops >= 1

\* C26: at shutdown stop() is called on every pipeline, then every task is
\* cancelled, then the capture sources are stopped, then the audio player;
\* no capture source and no audio player is stopped while a pipeline task
\* has not ended.
Before(opA, opB) ==
  \A i, j \in 1..Len(app.log) :
    (app.log[i].op = opA /\ app.log[j].op = opB) => i < j
C26_ShutdownOrder ==
  app.id = "app" =>
    /\ Before("pipeline.stop", "task.cancel")
    /\ Before("task.cancel", "capture.stop")
    /\ Before("capture.stop", "player.stop")
    /\ \A i \in 1..Len(app.log) :
         app.log[i].op \in {"capture.stop", "player.stop"} => app.log[i].open = {}

\* C27: a capture source that fails to start is reported and does not keep
\* the other channel from running: with both channels enabled the other
\* source is started all the same and its pipeline task runs; the program
\* ends on a start failure only if the failed channel was the only one
\* enabled.
Failed(c) == c \in app.enabled /\ app.src[c].started \notin {"no", "ok"}
C27_StartFailureIsolated ==
  app.id = "app" =>
    /\ \A c \in app.enabled : Failed(c) => c \in app.reported
    /\ app.pc = "exited" => \E c \in app.enabled : Failed(c) /\ app.enabled = {c}
    /\ \A c, o \in app.enabled :
         (c # o /\ Failed(c)) =>
           /\ app.pc # "exited"
           /\ app.pc \in {"create_tasks", "run"} => app.src[o].started # "no"
           /\ app.pc = "run" => app.task[o] = "pending"
           /\ (app.pc = "run" /\ app.src[o].started = "ok") =>
                 app.src[o].running /\ app.src[o].stream = "open"

C27_Witness ==
  /\ app.id = "app" /\ app.variant = "cli" /\ app.enabled = {mic, loopback}
  /\ app.pc = "run"
  /\ app.src[mic].started = "open_fails"
  /\ app.src[loopback].stream = "open"
  /\ app.steps[loopback] >= 1

\* C28: a failure of the subtitle display stays inside the subtitle step:
\* the synthesis of the same utterance is still started, so once a subtitle
\* step has failed a synthesis step of that utterance is logged.
C28_SubtitleFailureSwallowed ==
  \A i \in 1..Len(plog) :
    (plog[i].ev = "subtitle" /\ plog[i].out = "raise") =>
      /\ \E j \in 1..Len(plog) :
            /\ plog[j].ch = plog[i].ch /\ plog[j].utt = plog[i].utt
            /\ plog[j].ev = "tts"
      /\ pipe[plog[i].ch].utt = plog[i].utt => pipe[plog[i].ch].pc # "sleep"

\* C29: a block of n samples at native_rate comes out of the resampling
\* step with round(n * target_rate / native_rate) samples (a nearest
\* integer of the quotient), and an empty block comes out empty.
Abs(x) == IF x >= 0 THEN x ELSE -x
IsNearest(k, num, den) == 2 * Abs(num - k * den) <= den
C29_ResampledLengthRounded ==
  (rs.id = "resample" /\ rs.pc = "out" /\ rs.out # None) =>
    /\ IsNearest(rs.out[1], rs.n * SAMPLE_RATE, rs.native)
    /\ rs.n = 0 => rs.out[1] = 0

\* C30: a segment whose window is processed while Speaking with
\* now - speech_start >= MAX_SPEECH_DURATION_S is returned as an utterance,
\* however short its buffer is, and the VAD is Idle afterwards; no window
\* leaves the VAD Speaking past the maximum.
C30_ForceFlushBypassesMinimum ==
  /\ \A i \in 1..Len(fins) :
        MaxDurationReached(fins[i].t, fins[i].speech_start[1]) =>
          /\ fins[i].kind # "discard"
          /\ result # None
          /\ ~fins[i].after_speaking /\ fins[i].after_buffer = 0
  /\ (vad.is_speaking /\ ghost.lastWinT = Some(now)) =>
        ~MaxDurationReached(now, vad.speech_start[1])

\* C31: a Speaking episode does not outlast the first window analysed at or
\* after speech_start + MAX_SPEECH_DURATION_S: after a call that analysed a
\* window the VAD is not Speaking since that long, and a segment finalized
\* that late leaves the VAD Idle with an empty buffer, whatever the windows
\* held.
C31_SpeakingEpisodeEnds ==
  /\ (vad.is_speaking /\ ghost.lastWinT = Some(now)) =>
        now - vad.speech_start[1] < MAX_SPEECH_DURATION_MS
  /\ \A i \in 1..Len(fins) :
        fins[i].t - fins[i].speech_start[1] >= MAX_SPEECH_DURATION_MS =>
          ~fins[i].after_speaking /\ fins[i].after_buffer = 0
  /\ fins # <<>> => (~vad.is_speaking => vad.speech_buffer = <<>>)

C31_Witness ==
  /\ \E i \in 1..Len(fins) :
        /\ fins[i].kind = "force"
        /\ fins[i].t - fins[i].speech_start[1] >= MAX_SPEECH_DURATION_MS
  /\ ghost.finCount >= 1
  /\ ~vad.is_speaking

\* C32: the blocks fed since the last external reset are analysed as
\* consecutive, non-overlapping 512-sample windows in order: after every call
\* the leftover is the unanalysed tail, shorter than one window, the samples
\* fed equal 512 times the windows analysed plus the leftover, and every
\* window started where the previous one ended, also across calls in which a
\* segment was emitted or discarded.
C32_WindowsPartitionTheStream ==
  /\ ALen(vad.leftover) < silero_chunk_size
  /\ ghost.fedSince = silero_chunk_size * ghost.winsSince + ALen(vad.leftover)
  /\ ghost.gapless
  /\ ghost.next + ALen(vad.leftover) = feed.fed
  /\ vad.leftover # <<>> => Consecutive(vad.leftover, ghost.next)

C32_Witness ==
  /\ fins # <<>>
  /\ ghost.finCount >= 1
  /\ ghost.winsSince >= 2
  /\ ALen(vad.leftover) > 0
  /\ ghost.calls >= 3

\* C33: one process_chunk call finalizes at most one segment, whatever the
\* length of the block, so the utterance it returns is the one segment that
\* was emitted and no emitted utterance is replaced within the call.
C33_OneFinalizationPerCall ==
  /\ Len(fins) <= 1
  /\ result # None =>
        /\ Len(fins) = 1
        /\ fins[1].kind \in {"emit", "force"}
        /\ ALen(result[1]) = fins[1].samples
  /\ \A i \in 1..Len(fins) : fins[i].kind = "emit" => result # None

\* C33 witness: a call over several windows flushed a segment and the windows
\* after the flush opened the next one.
C33_Witness ==
  /\ Len(fins) = 1
  /\ result # None
  /\ vad.is_speaking
  /\ Len(vad.speech_buffer) >= 2
  /\ vad.speech_start = Some(now)

\* C34: a below-threshold window analysed while the VAD is Idle changes
\* nothing: is_speaking, speech_start, silence_start and the speech buffer
\* stay as they were, the window is not buffered and nothing is finalized or
\* returned; an Idle VAD that has just analysed such windows is therefore
\* still Idle with no timestamps and an empty buffer.
C34_IdleQuietWindowIsNoOp ==
  /\ ghost.idleKept
  /\ (ghost.idleQuiet > 0 /\ ~vad.is_speaking) =>
        /\ vad.speech_start = None
        /\ vad.silence_start = None
        /\ vad.speech_buffer = <<>>

\* C34 witness: quiet windows were analysed while Idle after a segment had
\* been finalized, long after the start of the run.
C34_Witness ==
  /\ ghost.idleQuiet >= 1
  /\ ghost.finCount >= 1
  /\ fins = <<>>
  /\ ~vad.is_speaking
  /\ now >= MAX_SPEECH_DURATION_MS

\* C35: a returned utterance is the in-order concatenation of all windows
\* analysed from the first above-threshold window of its segment through the
\* window that triggered the finalization, inclusive: it starts at that first
\* window, which is above the threshold, runs without a gap or a repetition
\* to the end of the finalizing window, and so holds the below-threshold
\* windows in between and no window analysed before the segment began.
C35_UtteranceIsTheSegmentsWindows ==
  result # None =>
    /\ Len(fins) = 1
    /\ Consecutive(result[1], fins[1].segStart)
    /\ ALen(result[1]) = fins[1].winEnd - fins[1].segStart
    /\ ALen(result[1]) % silero_chunk_size = 0
    /\ SpeechProbAtLeast(ASlice(result[1], 0, silero_chunk_size), VAD_THRESHOLD_PM)

\* C35 witness: an utterance ended by silence, which holds its trailing
\* below-threshold windows up to the one that timed the silence out.
C35_Witness ==
  /\ result # None
  /\ Len(fins) = 1
  /\ fins[1].kind = "emit"
  /\ fins[1].silRun >= 2
  /\ fins[1].winEnd = feed.fed - ALen(vad.leftover)
  /\ ALen(result[1]) >= 3 * silero_chunk_size

\* C36: after every process_chunk and reset call the VAD state is
\* consistent: is_speaking holds exactly when speech_start is set and exactly
\* when the speech buffer is non-empty, and silence_start is set only while
\* is_speaking.
C36_VadStateConsistent ==
  /\ vad.is_speaking <=> vad.speech_start # None
  /\ vad.is_speaking <=> vad.speech_buffer # <<>>
  /\ vad.silence_start # None => vad.is_speaking

\* C36 witness: reset() was called on a Speaking VAD that was timing a
\* silence, and a later call opened a new segment.
C36_Witness ==
  /\ resetLog.n >= 1
  /\ resetLog.before.is_speaking
  /\ resetLog.before.silence_start # None
  /\ ghost.calls > resetLog.at
  /\ vad.is_speaking
  /\ vad.silence_start = None

\* blocks strictly increasing in capture order
Increasing(q) == \A i \in 1..(Len(q) - 1) : q[i] < q[i + 1]

\* the block the get() has taken and run() has not yet been resumed with
InFlight(c) == IF pipe[c].item = 0 THEN <<>> ELSE <<pipe[c].item>>

\* C37: the blocks a channel's pipeline dequeues and feeds to process_chunk
\* are a subsequence, in capture order, of the blocks delivered to the
\* channel's capture callback: each block fed was captured after the one fed
\* before it, the block dequeued and not yet fed, the blocks queued and the
\* blocks whose put is scheduled follow it in capture order, and none is
\* beyond the blocks captured; a block dropped on a full queue or skipped
\* by the callback (gate armed, source not running) is neither fed nor
\* waiting; drops remove blocks but neither reorder nor duplicate them.
C37_DequeuedInCaptureOrder ==
  \A c \in env.channels :
    LET waiting == InFlight(c) \o audio_queue[c] \o cap[c].pending IN
    /\ pipe[c].inOrder
    /\ pipe[c].got <= pipe[c].lastGot
    /\ Increasing(<<pipe[c].lastGot>> \o waiting)
    /\ \A k \in InSeq(waiting) \cup {pipe[c].lastGot} : k <= cap[c].made
    /\ \A i \in 1..Len(cap[c].dropped) :
         cap[c].dropped[i].chunk \notin InSeq(waiting) \cup {pipe[c].lastGot}
    /\ \A i \in 1..Len(cap[c].skipped) :
         cap[c].skipped[i].chunk \notin InSeq(waiting) \cup {pipe[c].lastGot}

\* C37 witness: the loopback callback skipped a block while the gate was
\* armed for a clip, and the pipeline has since been fed a block captured
\* after it.
C37_Witness ==
  /\ env.id = "gated"
  /\ \E i \in 1..Len(cap[loopback].skipped) :
       /\ cap[loopback].skipped[i].why = "gated"
       /\ pipe[loopback].lastGot > cap[loopback].skipped[i].chunk
  /\ pipe[loopback].got < pipe[loopback].lastGot
  /\ pipe[loopback].got >= 2

\* further cases of C37 that its specification reaches: a block dropped on
\* the full queue with a later block fed, two puts scheduled at once behind
\* a block that was dequeued and not yet fed, and a block skipped because
\* the source had been stopped
C37_FullQueueCase ==
  /\ env.id = "capture"
  /\ cap[mic].dropped # <<>>
  /\ pipe[mic].lastGot > cap[mic].dropped[1].chunk
  /\ pipe[mic].got < pipe[mic].lastGot
  /\ pipe[mic].got >= 2
C37_TwoScheduledCase ==
  /\ env.id = "capture"
  /\ Len(cap[mic].pending) >= 2
  /\ audio_queue[mic] # <<>>
  /\ pipe[mic].item # 0
  /\ pipe[mic].got >= 1
C37_StoppedCase ==
  /\ env.id = "gated"
  /\ \E i \in 1..Len(cap[loopback].skipped) : cap[loopback].skipped[i].why = "stopped"
  /\ pipe[loopback].got >= 1
  /\ pipe[loopback].item # 0

\* C38: the captured blocks waiting for a channel's pipeline, those in its
\* queue plus those whose put the callback has scheduled on the event loop
\* and which has not run yet, never number more than QUEUE_MAX_SIZE.
C38_WaitingChunksBounded ==
  \A c \in env.channels :
    Len(audio_queue[c]) + Len(cap[c].pending) <= QUEUE_MAX_SIZE

\* C39: in the GUI engine at most one engine worker is active at any time,
\* when start_engine() is only called while the engine is not marked running
\* (at first, or after stop_engine()): a start_engine() that follows a
\* stop_engine() finds no earlier worker still alive next to the new one.
C39_AtMostOneEngineWorker ==
  (app.id = "api" /\ ~app.overlapped) =>
    Cardinality({w \in EngineWorkers : Alive(w)}) <= 1
\* reachability of the cases of stop(): the join times out on a worker inside
\* sd.play and sd.stop() ends the playback, or leaves it
StopJoinHalted == player.stop = "done" /\ playLog.cancelled # <<>>
StopJoinLeftPlaying == player.stop = "done" /\ player.pc = "play"
====
